---------------------------- MODULE Spec2Model ----------------------------
(***************************************************************************)
(* Model of the transaction engine of Financial-Companion                  *)
(* (src/transaction_processor.py): TransactionParser, TransactionValidator *)
(* and TransactionProcessor.                                               *)
(*                                                                         *)
(* Representation.                                                         *)
(*   - A Python str is a sequence of Unicode code points (integers), so    *)
(*     that lower()/upper(), substring tests and the regular expressions   *)
(*     are computed character by character.                                *)
(*   - A Python float that came from a decimal numeral is the record       *)
(*     [neg, w, f]: sign, digits of the whole part without leading zeros,  *)
(*     digits of the fraction without trailing zeros.  This is the exact   *)
(*     value for every numeral of at most 15 significant digits, and the   *)
(*     comparisons with the integer limits of the validator are exact for  *)
(*     every numeral of the model.                                         *)
(*   - None is the one-element sequence None where a str is expected and   *)
(*     the record NoneRec where an object is expected.                     *)
(*   - A message of the validator is identified by the name of its         *)
(*     f-string template; the interpolated values are fields of the record *)
(*     the verdict refers to.                                              *)
(***************************************************************************)
EXTENDS Integers, Sequences, FiniteSets, TLC

VARIABLES
    validator,      \* TransactionValidator instances: their rule tables
    transaction,    \* the TransactionData handed to validate_transaction
    verdict,        \* what validate_transaction returned last, or NoneRec
    calls,          \* number of validate_transaction calls made on transaction
    parts,          \* the pieces the caller's text is made of
    text,           \* the text handed to the parser or the processor
    data,           \* what _extract_with_regex returned or raised, or NoneRec
    llm,            \* TransactionProcessor.llm is set (an adapter is configured)
    response,       \* what the adapter does when it is called: its answer, or it raises
    result,         \* what process_transaction returned, or NoneRec before the call
    record,         \* what parse returned or raised, or NoneRec before the call
    texts,          \* the list handed to batch_process
    answers,        \* what the adapter did for each text of the batch so far
    results,        \* the local list "results" of batch_process
    batch,          \* what batch_process returned, or NoneRec before it returns
    check,          \* what a direct call of a checking function returned, or NoneRec
    statistics,     \* what get_statistics returned, or NoneRec before the call
    table,          \* the rows save_transaction has inserted into "transactions"
    display,        \* what show_transaction_result displayed, or NoneRec before it
    successful,     \* the counter "successful" of process_batch_file
    failed,         \* the counter "failed" of process_batch_file
    reported,       \* the counts logged as PROCESS_FILE_COMPLETE, or NoneRec
    pending,        \* the call self.llm(prompt) has been made and has not returned
    locked_users,   \* SecurityManager.locked_users: username -> lock_until
    audit,          \* the events AuditManager.log_event has written
    alerts,         \* AlertManager.alerts
    alert_id_counter,   \* AlertManager.alert_id_counter
    pc,             \* where each thread is in create_alert
    local,          \* the local variables of each thread in create_alert
    clock           \* datetime.now() in minutes (security), time.time() in seconds (monitoring)

vars ==
    <<validator, transaction, verdict, calls, parts, text, data, llm, response,
      result, record, texts, answers, results, batch, check, statistics,
      table, display, successful, failed, reported,
      pending, locked_users, audit, alerts, alert_id_counter, pc, local, clock>>
validatorVars == <<validator, transaction, verdict, calls>>
parserVars == <<parts, text, data>>
processorVars == <<llm, response, result>>
batchVars == <<texts, answers, results, batch>>
fileVars == <<successful, failed, reported>>
securityVars == <<locked_users, audit>>
monitoringVars == <<alerts, alert_id_counter, pc, local>>
serviceVars == <<pending, securityVars, monitoringVars, clock>>
applicationVars == <<statistics, table, display, fileVars, serviceVars>>

---------------------------------------------------------------------------
(* Python values *)

None == << -1 >>
NoneRec == [none |-> TRUE]

\* What a decoded JSON document can put where a str is expected: a number is
\* << -2 >> followed by its numeral, True is << -3 >> and False is << -4 >>.
True == << -3 >>
False == << -4 >>
Number(numeral) == << -2 >> \o numeral
IsStr(v) == v = <<>> \/ v[1] >= 0
IsNumber(v) == v # <<>> /\ v[1] = -2

\* bool(x): None, "", False and a number equal to zero are falsy
Truthy(s) ==
    /\ s \notin {None, <<>>, False}
    /\ ~(IsNumber(s) /\ \A i \in 2..Len(s) : s[i] \in {45, 46, 48})

\* A raised exception is the record [exc |-> its type]
Raise(type) == [exc |-> type]
Raised(x) == "exc" \in DOMAIN x

---------------------------------------------------------------------------
(* Characters and strings *)

IsDigit(c) == c >= 48 /\ c <= 57                 \* 0-9
IsUpperAZ(c) == c >= 65 /\ c <= 90               \* A-Z
IsLowerAZ(c) == c >= 97 /\ c <= 122              \* a-z
IsUpperCyr(c) == c >= 1040 /\ c <= 1071          \* А-Я
IsLowerCyr(c) == c >= 1072 /\ c <= 1103          \* а-я
\* \s of a str pattern, for the white space of the model's alphabet
IsSpace(c) == c \in {32, 9, 10, 11, 12, 13}

\* str.lower() on one character (Latin and Russian letters; Ё -> ё)
LowerChar(c) ==
    IF IsUpperAZ(c) \/ IsUpperCyr(c) THEN c + 32
    ELSE IF c = 1025 THEN 1105
    ELSE c

\* str.upper() on one character
UpperChar(c) ==
    IF IsLowerAZ(c) \/ IsLowerCyr(c) THEN c - 32
    ELSE IF c = 1105 THEN 1025
    ELSE c

LowerStr(s) == [i \in 1..Len(s) |-> LowerChar(s[i])]
UpperStr(s) == [i \in 1..Len(s) |-> UpperChar(s[i])]

\* s[i..] starts with lit (exact comparison)
StartsAt(s, i, lit) ==
    /\ i >= 1
    /\ i + Len(lit) - 1 <= Len(s)
    /\ \A k \in 1..Len(lit) : s[i + k - 1] = lit[k]

\* Python "lit in s"
Contains(s, lit) == \E i \in 1..(Len(s) - Len(lit) + 1) : StartsAt(s, i, lit)

\* str.replace(ch, '') / re.sub of a character class by '': drop the characters in Drop
RECURSIVE RemoveChars(_, _)
RemoveChars(s, Drop) ==
    IF s = <<>> THEN <<>>
    ELSE IF Head(s) \in Drop THEN RemoveChars(Tail(s), Drop)
    ELSE <<Head(s)>> \o RemoveChars(Tail(s), Drop)

\* concatenation of a sequence of strings
RECURSIVE Concat(_)
Concat(ss) == IF ss = <<>> THEN <<>> ELSE Head(ss) \o Concat(Tail(ss))

---------------------------------------------------------------------------
(* Numbers *)

\* decimal digits of a natural number, most significant first; <<>> for 0
RECURSIVE Digits(_)
Digits(n) == IF n = 0 THEN <<>> ELSE Digits(n \div 10) \o <<n % 10>>

RECURSIVE StripLeadingZeros(_)
StripLeadingZeros(d) ==
    IF d # <<>> /\ Head(d) = 0 THEN StripLeadingZeros(Tail(d)) ELSE d

RECURSIVE StripTrailingZeros(_)
StripTrailingZeros(d) ==
    IF d # <<>> /\ d[Len(d)] = 0
    THEN StripTrailingZeros(SubSeq(d, 1, Len(d) - 1))
    ELSE d

\* the float with whole-part digits w and fraction digits f
Dec(neg, w, f) ==
    [neg |-> neg, w |-> StripLeadingZeros(w), f |-> StripTrailingZeros(f)]

\* the float of a natural number, and of a natural number plus one half
Whole(n) == Dec(FALSE, Digits(n), <<>>)
AndHalf(n) == Dec(FALSE, Digits(n), <<5>>)

\* -1, 0, 1: order of two whole parts without leading zeros
RECURSIVE CmpDigits(_, _)
CmpDigits(a, b) ==
    IF Len(a) # Len(b) THEN (IF Len(a) < Len(b) THEN -1 ELSE 1)
    ELSE IF a = <<>> THEN 0
    ELSE IF Head(a) # Head(b) THEN (IF Head(a) < Head(b) THEN -1 ELSE 1)
    ELSE CmpDigits(Tail(a), Tail(b))

IsZero(x) == x.w = <<>> /\ x.f = <<>>

\* x > n and x < n for a float x and a natural number n
GreaterThan(x, n) ==
    /\ ~x.neg
    /\ \/ CmpDigits(x.w, Digits(n)) = 1
       \/ CmpDigits(x.w, Digits(n)) = 0 /\ x.f # <<>>

LessThan(x, n) ==
    IF x.neg THEN ~IsZero(x) \/ n > 0
    ELSE CmpDigits(x.w, Digits(n)) = -1

---------------------------------------------------------------------------
(* String literals of the source *)

USD == <<85, 83, 68>>  \* 'USD'
EUR == <<69, 85, 82>>  \* 'EUR'
RUB == <<82, 85, 66>>  \* 'RUB'
GBP == <<71, 66, 80>>  \* 'GBP'
CHF == <<67, 72, 70>>  \* 'CHF'
JPY == <<74, 80, 89>>  \* 'JPY'

kw_sanctions == <<1089, 1072, 1085, 1082, 1094, 1080, 1080>>  \* 'санкции'
kw_sanctioned == <<1089, 1072, 1085, 1082, 1094, 1080, 1086, 1085, 1085, 1099, 1081>>  \* 'санкционный'
kw_blocked == <<98, 108, 111, 99, 107, 101, 100>>  \* 'blocked'
kw_forbidden == <<102, 111, 114, 98, 105, 100, 100, 101, 110>>  \* 'forbidden'
kw_terror == <<1090, 1077, 1088, 1088, 1086, 1088>>  \* 'террор'
kw_extremism == <<1101, 1082, 1089, 1090, 1088, 1077, 1084, 1080, 1079, 1084>>  \* 'экстремизм'
kw_drug == <<1085, 1072, 1088, 1082, 1086, 1090, 1080, 1082>>  \* 'наркотик'
kw_weapon == <<1086, 1088, 1091, 1078, 1080, 1077>>  \* 'оружие'

---------------------------------------------------------------------------
(* TransactionData *)

\* the dataclass; timestamp (datetime.now()) is not read by any rule and is left out
TransactionData(amount, currency, recipient, account_number, iban, description) ==
    [amount |-> amount, currency |-> currency, recipient |-> recipient,
     account_number |-> account_number, iban |-> iban, description |-> description]

---------------------------------------------------------------------------
(* TransactionValidator *)

\* the rule tables with the RUB minimum set to 1 like the other two
TransactionValidatorRubMin1 ==
    [max_amounts |-> (USD :> 10000 @@ EUR :> 8500 @@ RUB :> 750000),
     blocked_recipients |-> <<kw_sanctions, kw_sanctioned, kw_blocked, kw_forbidden,
                              kw_terror, kw_extremism, kw_drug, kw_weapon>>,
     min_amounts |-> (USD :> 1 @@ EUR :> 1 @@ RUB :> 1),
     supported_currencies |-> <<USD, EUR, RUB, GBP, CHF, JPY>>]

\* the rule tables with JPY left out of the supported currencies
TransactionValidatorWithoutJPY ==
    [max_amounts |-> (USD :> 10000 @@ EUR :> 8500 @@ RUB :> 750000),
     blocked_recipients |-> <<kw_sanctions, kw_sanctioned, kw_blocked, kw_forbidden,
                              kw_terror, kw_extremism, kw_drug, kw_weapon>>,
     min_amounts |-> (USD :> 1 @@ EUR :> 1 @@ RUB :> 100),
     supported_currencies |-> <<USD, EUR, RUB, GBP, CHF>>]

\* TransactionValidator.__init__: the rule tables of one instance
TransactionValidator ==
    [max_amounts |-> (USD :> 10000 @@ EUR :> 8500 @@ RUB :> 750000),
     blocked_recipients |-> <<kw_sanctions, kw_sanctioned, kw_blocked, kw_forbidden,
                              kw_terror, kw_extremism, kw_drug, kw_weapon>>,
     min_amounts |-> (USD :> 1 @@ EUR :> 1 @@ RUB :> 100),
     supported_currencies |-> <<USD, EUR, RUB, GBP, CHF, JPY>>]

\* x in list
InList(x, list) == \E i \in 1..Len(list) : list[i] = x

\* re.match(r'^[A-Z]{2}\d{2}[A-Z0-9]+$', iban): "$" also matches before one
\* trailing line feed
IbanPattern(iban) ==
    LET body == IF iban # <<>> /\ iban[Len(iban)] = 10
                THEN SubSeq(iban, 1, Len(iban) - 1) ELSE iban
    IN  /\ Len(body) >= 5
        /\ IsUpperAZ(body[1]) /\ IsUpperAZ(body[2])
        /\ IsDigit(body[3]) /\ IsDigit(body[4])
        /\ \A i \in 5..Len(body) : IsUpperAZ(body[i]) \/ IsDigit(body[i])

\* the country_lengths table of _validate_iban
country_lengths ==
    (<<82, 85>> :> 33 @@ <<68, 69>> :> 22 @@ <<70, 82>> :> 27 @@
     <<71, 66>> :> 22 @@ <<85, 83>> :> 0)       \* RU, DE, FR, GB, US

\* TransactionValidator._validate_iban
validate_iban(iban_arg) ==
    LET iban == UpperStr(RemoveChars(iban_arg, {32}))
        country_code == SubSeq(iban, 1, 2)
    IN  IF Len(iban) < 15 \/ Len(iban) > 34 THEN FALSE
        ELSE IF ~IbanPattern(iban) THEN FALSE
        ELSE IF /\ country_code \in DOMAIN country_lengths
                /\ country_lengths[country_code] > 0
                /\ Len(iban) # country_lengths[country_code]
             THEN FALSE
        ELSE TRUE

\* str.isdigit(): non-empty and every character a digit
IsDigitStr(s) == s # <<>> /\ \A i \in 1..Len(s) : IsDigit(s[i])

\* the prefixes of str.startswith in _validate_account_number
russian_prefixes ==
    {<<52, 48, 56>>, <<52, 48, 55>>, <<52, 48, 53>>, <<52, 50, 51>>, <<52, 50, 54>>}

\* an account check that wants one of the prefixes from a 20-digit account
validate_account_number_prefix_required(account) ==
    LET clean_account == RemoveChars(account, {32, 9, 10, 11, 12, 13, 45})
    IN  IF ~IsDigitStr(clean_account) THEN FALSE
        ELSE IF Len(clean_account) < 10 \/ Len(clean_account) > 25 THEN FALSE
        ELSE IF Len(clean_account) = 20
             THEN SubSeq(clean_account, 1, 3) \in russian_prefixes
        ELSE Len(clean_account) >= 10

\* TransactionValidator._validate_account_number
validate_account_number(account) ==
    LET clean_account == RemoveChars(account, {32, 9, 10, 11, 12, 13, 45})
    IN  IF ~IsDigitStr(clean_account) THEN FALSE
        ELSE IF Len(clean_account) < 10 \/ Len(clean_account) > 25 THEN FALSE
        ELSE IF /\ Len(clean_account) = 20
                /\ SubSeq(clean_account, 1, 3) \in russian_prefixes
             THEN TRUE
        ELSE Len(clean_account) >= 10

\* one append guarded by its condition
Appended(cond, msg) == IF cond THEN <<msg>> ELSE <<>>

\* "for blocked in self.blocked_recipients: if blocked in recipient_lower: append; break"
\* without the break (one error per matching keyword)
RECURSIVE BlockedLoopNoBreak(_, _)
BlockedLoopNoBreak(blocked_recipients, recipient_lower) ==
    IF blocked_recipients = <<>> THEN <<>>
    ELSE Appended(Contains(recipient_lower, Head(blocked_recipients)), "E_blocked")
         \o BlockedLoopNoBreak(Tail(blocked_recipients), recipient_lower)

\* "for blocked in self.blocked_recipients: if blocked in recipient_lower: append; break"
RECURSIVE BlockedLoop(_, _)
BlockedLoop(blocked_recipients, recipient_lower) ==
    IF blocked_recipients = <<>> THEN <<>>
    ELSE IF Contains(recipient_lower, Head(blocked_recipients)) THEN <<"E_blocked">>
    ELSE BlockedLoop(Tail(blocked_recipients), recipient_lower)

\* the errors of a validate_transaction that returns as soon as the amount
\* rules found an error
ValidationErrorsShortCircuit(self, t) ==
    LET currency == t.currency
        amount_errors ==
            IF currency \in DOMAIN self.max_amounts
            THEN Appended(GreaterThan(t.amount, self.max_amounts[currency]), "E_ceiling")
                 \o Appended(LessThan(t.amount, self.min_amounts[currency]), "E_floor")
            ELSE <<>>
    IN  IF amount_errors # <<>> THEN amount_errors
        ELSE BlockedLoop(self.blocked_recipients, LowerStr(t.recipient))
             \o Appended(Len(t.recipient) < 2, "E_short")

\* the errors validate_transaction appends, in the order of its statements
ValidationErrors(self, t) ==
    LET currency == t.currency
    IN  (IF currency \in DOMAIN self.max_amounts
         THEN Appended(GreaterThan(t.amount, self.max_amounts[currency]), "E_ceiling")
              \o Appended(LessThan(t.amount, self.min_amounts[currency]), "E_floor")
         ELSE <<>>)
        \o BlockedLoop(self.blocked_recipients, LowerStr(t.recipient))
        \o Appended(Len(t.recipient) < 2, "E_short")

\* the warnings with the large-amount advisory left out when the amount already
\* exceeds the ceiling
ValidationWarningsNoAdvisoryAboveCeiling(self, t) ==
    LET currency == t.currency
    IN  Appended(~InList(t.currency, self.supported_currencies), "W_currency")
        \o Appended(~(Len(t.recipient) < 2) /\ Len(t.recipient) > 100, "W_long")
        \o Appended(Truthy(t.iban) /\ ~validate_iban(t.iban), "W_iban")
        \o Appended(Truthy(t.account_number)
                    /\ ~validate_account_number(t.account_number), "W_account")
        \o (IF currency \in DOMAIN self.max_amounts
               /\ GreaterThan(t.amount, self.max_amounts[currency]) THEN <<>>
            ELSE IF currency = RUB /\ GreaterThan(t.amount, 100000) THEN <<"W_large_rub">>
            ELSE IF currency \in {USD, EUR} /\ GreaterThan(t.amount, 5000)
                 THEN <<"W_large_fx">>
            ELSE <<>>)

\* the warnings validate_transaction appends, in the order of its statements
ValidationWarnings(self, t) ==
    LET currency == t.currency
    IN  Appended(~InList(t.currency, self.supported_currencies), "W_currency")
        \o Appended(~(Len(t.recipient) < 2) /\ Len(t.recipient) > 100, "W_long")
        \o Appended(Truthy(t.iban) /\ ~validate_iban(t.iban), "W_iban")
        \o Appended(Truthy(t.account_number)
                    /\ ~validate_account_number(t.account_number), "W_account")
        \o (IF currency = RUB /\ GreaterThan(t.amount, 100000) THEN <<"W_large_rub">>
            ELSE IF currency \in {USD, EUR} /\ GreaterThan(t.amount, 5000)
                 THEN <<"W_large_fx">>
            ELSE <<>>)

\* "'is_valid': len(errors) == 0" with the warnings counted too
IsValidCountingWarnings(errors, warnings) == Len(errors) = 0 /\ Len(warnings) = 0

\* "'is_valid': len(errors) == 0"
IsValid(errors, warnings) == Len(errors) = 0

\* TransactionValidator.validate_transaction.  The fields of a record are not
\* type-checked when it is built: recipient.lower() (line 239) raises
\* AttributeError on a recipient that is not a str, iban.replace (line 286) on a
\* truthy iban that is not a str, and re.sub (line 324) raises TypeError on a
\* truthy account_number that is not a str.
validate_transaction(self, t) ==
    LET errors == ValidationErrors(self, t)
        warnings == ValidationWarnings(self, t)
    IN  IF ~IsStr(t.recipient) THEN Raise("AttributeError")
        ELSE IF Truthy(t.iban) /\ ~IsStr(t.iban) THEN Raise("AttributeError")
        ELSE IF Truthy(t.account_number) /\ ~IsStr(t.account_number)
             THEN Raise("TypeError")
        ELSE [is_valid |-> IsValid(errors, warnings),
              errors |-> errors,
              warnings |-> warnings,
              transaction |-> t]

---------------------------------------------------------------------------
(* Regular expressions of TransactionParser._extract_with_regex *)

cue_rubl == <<1088, 1091, 1073, 1083>>  \* 'рубл'
cue_rub_sign == <<8381>>  \* '₽'
cue_rub == <<1088, 1091, 1073>>  \* 'руб'
cue_RUB == <<82, 85, 66>>  \* 'RUB'
cue_dollar == <<1076, 1086, 1083, 1083, 1072, 1088>>  \* 'доллар'
cue_usd_sign == <<36>>  \* '$'
cue_USD == <<85, 83, 68>>  \* 'USD'
cue_euro == <<1077, 1074, 1088, 1086>>  \* 'евро'
cue_eur_sign == <<8364>>  \* '€'
cue_EUR == <<69, 85, 82>>  \* 'EUR'
m_poluchatel == <<1087, 1086, 1083, 1091, 1095, 1072, 1090, 1077, 1083>>  \* 'получател'
m_komu == <<1082, 1086, 1084, 1091>>  \* 'кому'
m_dlya == <<1076, 1083, 1103>>  \* 'для'
m_na_imya == <<1085, 1072, 32, 1080, 1084, 1103>>  \* 'на имя'
m_recipient == <<114, 101, 99, 105, 112, 105, 101, 110, 116>>  \* 'recipient'
m_to == <<116, 111>>  \* 'to'
t_na_schet == <<1085, 1072, 32, 1089, 1095, 1077, 1090>>  \* 'на счет'
t_schet == <<1089, 1095, 1077, 1090>>  \* 'счет'
t_IBAN == <<73, 66, 65, 78>>  \* 'IBAN'
m_schyot == <<1089, 1095, 1105, 1090>>  \* 'счёт'
m_account == <<97, 99, 99, 111, 117, 110, 116>>  \* 'account'
d_naznachenie == <<1085, 1072, 1079, 1085, 1072, 1095, 1077, 1085, 1080, 1077>>  \* 'назначение'
d_opisanie == <<1086, 1087, 1080, 1089, 1072, 1085, 1080, 1077>>  \* 'описание'
d_kommentarij == <<1082, 1086, 1084, 1084, 1077, 1085, 1090, 1072, 1088, 1080, 1081>>  \* 'комментарий'
d_cel == <<1094, 1077, 1083, 1100>>  \* 'цель'
d_purpose == <<112, 117, 114, 112, 111, 115, 101>>  \* 'purpose'
unknown_recipient ==
    <<1053, 1077, 1080, 1079, 1074, 1077, 1089, 1090, 1085, 1099, 1081, 32,
      1087, 1086, 1083, 1091, 1095, 1072, 1090, 1077, 1083, 1100>>  \* 'Неизвестный получатель'

\* the least element of a non-empty set of positions
Leftmost(S) == CHOOSE i \in S : \A j \in S : i <= j

\* the greatest element of a non-empty set of positions
Rightmost(S) == CHOOSE i \in S : \A j \in S : i >= j

\* a literal of a pattern at position i, under re.IGNORECASE
MatchIC(s, i, lit) ==
    /\ i >= 1
    /\ i + Len(lit) - 1 <= Len(s)
    /\ \A k \in 1..Len(lit) : LowerChar(s[i + k - 1]) = LowerChar(lit[k])

\* position after the alternative of alts (tried in order) that matches at i; 0 if none
RECURSIVE AltEnd(_, _, _)
AltEnd(s, i, alts) ==
    IF alts = <<>> THEN 0
    ELSE IF MatchIC(s, i, Head(alts)) THEN i + Len(Head(alts))
    ELSE AltEnd(s, i, Tail(alts))

\* \d+ , \s* and [:\s]* taken greedily from position i: the position after the run
RECURSIVE DigitRunEnd(_, _)
DigitRunEnd(s, i) ==
    IF i <= Len(s) /\ IsDigit(s[i]) THEN DigitRunEnd(s, i + 1) ELSE i

RECURSIVE SpaceRunEnd(_, _)
SpaceRunEnd(s, i) ==
    IF i <= Len(s) /\ IsSpace(s[i]) THEN SpaceRunEnd(s, i + 1) ELSE i

RECURSIVE ColonSpaceRunEnd(_, _)
ColonSpaceRunEnd(s, i) ==
    IF i <= Len(s) /\ (s[i] = 58 \/ IsSpace(s[i])) THEN ColonSpaceRunEnd(s, i + 1) ELSE i

\* (\d+(?:\.\d+)?) taken greedily from a digit at position i: the position after it.
\* In the three currency patterns no shorter alternative can match: what follows a
\* shorter number is a digit or ".", and neither \s* nor a cue can start with one.
NumberEnd(s, i) ==
    LET j == DigitRunEnd(s, i)
    IN  IF j + 1 <= Len(s) /\ s[j] = 46 /\ IsDigit(s[j + 1])
        THEN DigitRunEnd(s, j + 1)
        ELSE j

\* float(numeral) for a numeral matched by \d+(?:\.\d+)?
ParseNumber(numeral) ==
    LET dots == {i \in 1..Len(numeral) : numeral[i] = 46}
        dot == IF dots = {} THEN Len(numeral) + 1 ELSE Leftmost(dots)
    IN  Dec(FALSE,
            [i \in 1..(dot - 1) |-> numeral[i] - 48],
            [i \in 1..(Len(numeral) - dot) |-> numeral[dot + i] - 48])

\* r'(\d+(?:\.\d+)?)\s*(?:cue|cue|...)' matches at position i
AmountMatchAt(s, i, cues) ==
    /\ IsDigit(s[i])
    /\ AltEnd(s, SpaceRunEnd(s, NumberEnd(s, i)), cues) # 0

\* re.search(pattern, text, re.IGNORECASE) for a currency pattern: the start of
\* the leftmost match, 0 if there is none
AmountSearch(s, cues) ==
    LET M == {i \in 1..Len(s) : AmountMatchAt(s, i, cues)}
    IN  IF M = {} THEN 0 ELSE Leftmost(M)

\* the start of the last number of the text instead of the first, 0 if none
NumberSearchLast(s) ==
    LET M == {i \in 1..Len(s) : IsDigit(s[i]) /\ (i = 1 \/ ~IsDigit(s[i - 1]))}
    IN  IF M = {} THEN 0 ELSE Rightmost(M)

\* re.search(r'(\d+(?:\.\d+)?)', text): the start of the first number, 0 if none
NumberSearch(s) ==
    LET M == {i \in 1..Len(s) : IsDigit(s[i])}
    IN  IF M = {} THEN 0 ELSE Leftmost(M)

\* match.group(1) of a number that starts at i
NumberGroup(s, i) == SubSeq(s, i, NumberEnd(s, i) - 1)

\* the list the loop of _extract_with_regex runs over, in USD, RUB, EUR order
currency_patterns_usd_first ==
    <<[curr_type |-> USD, cues |-> <<cue_dollar, cue_usd_sign, cue_USD>>],
      [curr_type |-> RUB, cues |-> <<cue_rubl, cue_rub_sign, cue_rub, cue_RUB>>],
      [curr_type |-> EUR, cues |-> <<cue_euro, cue_eur_sign, cue_EUR>>]>>

\* the list the loop of _extract_with_regex runs over
currency_patterns ==
    <<[curr_type |-> RUB, cues |-> <<cue_rubl, cue_rub_sign, cue_rub, cue_RUB>>],
      [curr_type |-> USD, cues |-> <<cue_dollar, cue_usd_sign, cue_USD>>],
      [curr_type |-> EUR, cues |-> <<cue_euro, cue_eur_sign, cue_EUR>>]>>

\* "for curr_type, pattern in [...]: match = re.search(...); if match: ...; break":
\* [amount, currency], or NoneRec when no pattern matches
RECURSIVE CurrencyLoop(_, _)
CurrencyLoop(patterns, text_arg) ==
    IF patterns = <<>> THEN NoneRec
    ELSE LET at == AmountSearch(text_arg, Head(patterns).cues)
         IN  IF at # 0
             THEN [amount |-> ParseNumber(NumberGroup(text_arg, at)),
                   currency |-> Head(patterns).curr_type]
             ELSE CurrencyLoop(Tail(patterns), text_arg)

\* [А-Яа-яA-Za-z\s]
NameChar(c) ==
    IsUpperCyr(c) \/ IsLowerCyr(c) \/ IsUpperAZ(c) \/ IsLowerAZ(c) \/ IsSpace(c)

\* (?:получател[ьюя]|кому|для|на имя|recipient|to) at position i: the position
\* after it, 0 if it does not match
RecipientMarkerEnd(s, i) ==
    IF /\ MatchIC(s, i, m_poluchatel)
       /\ i + Len(m_poluchatel) <= Len(s)
       /\ LowerChar(s[i + Len(m_poluchatel)]) \in {1100, 1102, 1103}     \* [ьюя]
    THEN i + Len(m_poluchatel) + 1
    ELSE AltEnd(s, i, <<m_komu, m_dlya, m_na_imya, m_recipient, m_to>>)

\* (?:\s|$|,|на счет|счет|IBAN) matches at position p ("$" before a final line
\* feed is the \s case)
NameTerminatorAt(s, p) ==
    \/ p = Len(s) + 1
    \/ p <= Len(s) /\ (IsSpace(s[p]) \/ s[p] = 44)
    \/ AltEnd(s, p, <<t_na_schet, t_schet, t_IBAN>>) # 0

\* ([А-Яа-яA-Za-z\s]+?) from q, whose characters before p are matched: the
\* position after the shortest group that a terminator follows, 0 if none
RECURSIVE NameEnd(_, _)
NameEnd(s, p) ==
    IF NameTerminatorAt(s, p) THEN p
    ELSE IF p <= Len(s) /\ NameChar(s[p]) THEN NameEnd(s, p + 1)
    ELSE 0

LazyNameEnd(s, q) ==
    IF q <= Len(s) /\ NameChar(s[q]) THEN NameEnd(s, q + 1) ELSE 0

\* the recipient pattern at position i: [from, to) of group(1), NoneRec if no
\* match.  [:\s]* is greedy and gives characters back until the group matches.
RecipientMatchAt(s, i) ==
    LET m == RecipientMarkerEnd(s, i)
        Q == IF m = 0 THEN {}
             ELSE {q \in m..ColonSpaceRunEnd(s, m) : LazyNameEnd(s, q) # 0}
    IN  IF Q = {} THEN NoneRec
        ELSE [from |-> Rightmost(Q), to |-> LazyNameEnd(s, Rightmost(Q))]

\* re.search(patterns['recipient'], text, re.IGNORECASE).group(1), None if no match
RecipientSearch(s) ==
    LET M == {i \in 1..Len(s) : RecipientMatchAt(s, i) # NoneRec}
    IN  IF M = {} THEN None
        ELSE LET g == RecipientMatchAt(s, Leftmost(M))
             IN  SubSeq(s, g.from, g.to - 1)

\* str.strip(chars): the characters of Chars removed from both ends
RECURSIVE StripChars(_, _)
StripChars(s, Chars) ==
    IF s # <<>> /\ Head(s) \in Chars THEN StripChars(Tail(s), Chars)
    ELSE IF s # <<>> /\ s[Len(s)] \in Chars
         THEN StripChars(SubSeq(s, 1, Len(s) - 1), Chars)
    ELSE s

WhiteSpace == {32, 9, 10, 11, 12, 13}

\* re.sub(r'\s+', ' ', s)
RECURSIVE CollapseSpaces(_)
CollapseSpaces(s) ==
    IF s = <<>> THEN <<>>
    ELSE IF IsSpace(Head(s))
         THEN <<32>> \o CollapseSpaces(SubSeq(s, SpaceRunEnd(s, 1), Len(s)))
    ELSE <<Head(s)>> \o CollapseSpaces(Tail(s))

\* (?:счет|счёт|account)[:\s]*(\d{10,20}) at position i: group(1), None if no match
AccountMatchAt(s, i) ==
    LET m == AltEnd(s, i, <<t_schet, m_schyot, m_account>>)
        q == ColonSpaceRunEnd(s, m)
        n == DigitRunEnd(s, q) - q
    IN  IF m = 0 \/ n < 10 THEN None
        ELSE SubSeq(s, q, q + (IF n > 20 THEN 20 ELSE n) - 1)

AccountSearch(s) ==
    LET M == {i \in 1..Len(s) : AccountMatchAt(s, i) # None}
    IN  IF M = {} THEN None ELSE AccountMatchAt(s, Leftmost(M))

\* [A-Z0-9]* under re.IGNORECASE taken greedily from position i
RECURSIVE AlnumRunEnd(_, _)
AlnumRunEnd(s, i) ==
    IF i <= Len(s) /\ (IsUpperAZ(s[i]) \/ IsLowerAZ(s[i]) \/ IsDigit(s[i]))
    THEN AlnumRunEnd(s, i + 1) ELSE i

\* (?:IBAN|iban)[:\s]*([A-Z]{2}\d{2}[A-Z0-9]{4,30}) at position i: group(1),
\* None if no match
IbanMatchAt(s, i) ==
    LET m == AltEnd(s, i, <<t_IBAN>>)
        q == ColonSpaceRunEnd(s, m)
        n == AlnumRunEnd(s, q + 4) - (q + 4)
    IN  IF /\ m # 0
           /\ q + 3 <= Len(s)
           /\ IsUpperAZ(s[q]) \/ IsLowerAZ(s[q])
           /\ IsUpperAZ(s[q + 1]) \/ IsLowerAZ(s[q + 1])
           /\ IsDigit(s[q + 2]) /\ IsDigit(s[q + 3])
           /\ n >= 4
        THEN SubSeq(s, q, q + 4 + (IF n > 30 THEN 30 ELSE n) - 1)
        ELSE None

IbanSearch(s) ==
    LET M == {i \in 1..Len(s) : IbanMatchAt(s, i) # None}
    IN  IF M = {} THEN None ELSE IbanMatchAt(s, Leftmost(M))

\* [^,\n]* taken greedily from position i
RECURSIVE NoCommaRunEnd(_, _)
NoCommaRunEnd(s, i) ==
    IF i <= Len(s) /\ s[i] \notin {44, 10} THEN NoCommaRunEnd(s, i + 1) ELSE i

\* (?:назначение|описание|комментарий|цель|для|purpose)[:\s]*([^,\n]+) at
\* position i: group(1), None if no match
DescriptionMatchAt(s, i) ==
    LET m == AltEnd(s, i, <<d_naznachenie, d_opisanie, d_kommentarij, d_cel,
                            m_dlya, d_purpose>>)
        Q == IF m = 0 THEN {}
             ELSE {q \in m..ColonSpaceRunEnd(s, m) : NoCommaRunEnd(s, q) > q}
    IN  IF Q = {} THEN None
        ELSE SubSeq(s, Rightmost(Q), NoCommaRunEnd(s, Rightmost(Q)) - 1)

DescriptionSearch(s) ==
    LET M == {i \in 1..Len(s) : DescriptionMatchAt(s, i) # None}
    IN  IF M = {} THEN None ELSE DescriptionMatchAt(s, Leftmost(M))

\* the amount and the currency with 0 RUB where the code has None
FindAmountDefaultZero(text_arg) ==
    LET cued == CurrencyLoop(currency_patterns, text_arg)
        first == NumberSearch(text_arg)
    IN  IF cued # NoneRec THEN cued
        ELSE IF first # 0
             THEN [amount |-> ParseNumber(NumberGroup(text_arg, first)),
                   currency |-> RUB]
        ELSE [amount |-> Whole(0), currency |-> RUB]

\* a fallback that takes the three capital letters written after the first
\* number as the currency
FindAmountWordAfter(text_arg) ==
    LET cued == CurrencyLoop(currency_patterns, text_arg)
        first == NumberSearch(text_arg)
        after == first + Len(NumberGroup(text_arg, first))
    IN  IF cued # NoneRec THEN cued
        ELSE IF first # 0
             THEN [amount |-> ParseNumber(NumberGroup(text_arg, first)),
                   currency |->
                       IF /\ after + 3 <= Len(text_arg)
                          /\ text_arg[after] = 32
                          /\ \A i \in (after + 1)..(after + 3) : IsUpperAZ(text_arg[i])
                       THEN SubSeq(text_arg, after + 1, after + 3)
                       ELSE RUB]
        ELSE NoneRec

\* the amount and the currency: from the first currency pattern that matches,
\* else the first number of the text with RUB, else NoneRec (amount is None)
FindAmount(text_arg) ==
    LET cued == CurrencyLoop(currency_patterns, text_arg)
        first == NumberSearch(text_arg)
    IN  IF cued # NoneRec THEN cued
        ELSE IF first # 0
             THEN [amount |-> ParseNumber(NumberGroup(text_arg, first)),
                   currency |-> RUB]
        ELSE NoneRec

\* TransactionParser._extract_with_regex: the dict it returns, or the exception
extract_with_regex(text_arg) ==
    LET found == FindAmount(text_arg)
        recipient_match == RecipientSearch(text_arg)
        recipient == IF recipient_match # None
                     THEN StripChars(recipient_match, WhiteSpace)
                     ELSE unknown_recipient
        description_match == DescriptionSearch(text_arg)
    IN  IF found = NoneRec THEN Raise("ValueError")
        ELSE [amount |-> found.amount,
              currency |-> found.currency,
              recipient |-> StripChars(CollapseSpaces(recipient), {46, 44, 33, 63, 59, 58}),
              account_number |-> AccountSearch(text_arg),
              iban |-> IbanSearch(text_arg),
              description |-> IF description_match # None
                              THEN StripChars(description_match, WhiteSpace)
                              ELSE None]

---------------------------------------------------------------------------
(* json.loads on the slice of the text between its first "{" and its last "}".
   The decoder covers an object whose members are strings, numbers without an
   exponent, null, true and false, in strings without a backslash; no text of
   the model holds a nested value, an exponent, an escape or NaN/Infinity. *)

key_amount == <<97, 109, 111, 117, 110, 116>>  \* 'amount'
key_currency == <<99, 117, 114, 114, 101, 110, 99, 121>>  \* 'currency'
key_recipient == <<114, 101, 99, 105, 112, 105, 101, 110, 116>>  \* 'recipient'
key_account_number ==
    <<97, 99, 99, 111, 117, 110, 116, 95, 110, 117, 109, 98, 101, 114>>  \* 'account_number'
key_iban == <<105, 98, 97, 110>>  \* 'iban'
key_description ==
    <<100, 101, 115, 99, 114, 105, 112, 116, 105, 111, 110>>  \* 'description'
lit_null == <<110, 117, 108, 108>>  \* 'null'
lit_true == <<116, 114, 117, 101>>  \* 'true'
lit_false == <<102, 97, 108, 115, 101>>  \* 'false'

EmptyDict == [k \in {} |-> None]

\* the white space between the tokens of a document
RECURSIVE SkipJsonSpace(_, _)
SkipJsonSpace(s, i) ==
    IF i <= Len(s) /\ s[i] \in {32, 9, 10, 13} THEN SkipJsonSpace(s, i + 1) ELSE i

\* the closing quote of the string literal opened at i, given the quotes,
\* backslashes and control characters after i; 0 if it is not closed before a
\* control character
StringCloseAmong(s, stops) ==
    IF stops = {} THEN 0
    ELSE IF s[Leftmost(stops)] = 34 THEN Leftmost(stops)
    ELSE 0

StringClose(s, i) ==
    StringCloseAmong(s, {j \in (i + 1)..Len(s) : s[j] = 34 \/ s[j] = 92 \/ s[j] < 32})

\* (\.\d+)? at k: the position after it
JsonFractionEnd(s, k) ==
    IF k + 1 <= Len(s) /\ s[k] = 46 /\ IsDigit(s[k + 1]) THEN DigitRunEnd(s, k + 1)
    ELSE k

\* -?(?:0|[1-9]\d*)(\.\d+)? with its integer part starting at j: the position
\* after the number, 0 if none
JsonNumberEndFrom(s, j) ==
    IF j > Len(s) \/ ~IsDigit(s[j]) THEN 0
    ELSE JsonFractionEnd(s, IF s[j] = 48 THEN j + 1 ELSE DigitRunEnd(s, j))

JsonNumberEnd(s, i) == JsonNumberEndFrom(s, IF s[i] = 45 THEN i + 1 ELSE i)

\* [val, next] of a token that ends before position end; NoneRec if end is 0
JsonString(s, i, close) ==
    IF close = 0 THEN NoneRec
    ELSE [val |-> SubSeq(s, i + 1, close - 1), next |-> close + 1]

JsonNumber(s, i, end) ==
    IF end = 0 THEN NoneRec
    ELSE [val |-> Number(SubSeq(s, i, end - 1)), next |-> end]

\* the value at i: [val, next], NoneRec if there is none
JsonValue(s, i) ==
    IF i > Len(s) THEN NoneRec
    ELSE IF s[i] = 34 THEN JsonString(s, i, StringClose(s, i))
    ELSE IF StartsAt(s, i, lit_null) THEN [val |-> None, next |-> i + 4]
    ELSE IF StartsAt(s, i, lit_true) THEN [val |-> True, next |-> i + 4]
    ELSE IF StartsAt(s, i, lit_false) THEN [val |-> False, next |-> i + 5]
    ELSE JsonNumber(s, i, JsonNumberEnd(s, i))

\* the members of an object from the key at i on, added to acc (a repeated key
\* keeps its last value): [obj, next] after the closing "}", NoneRec on an error
RECURSIVE JsonMembers(_, _, _)

\* after a member: "}" closes the object, "," announces the next member
JsonAfterMember(s, d, obj) ==
    IF d > Len(s) THEN NoneRec
    ELSE IF s[d] = 125 THEN [obj |-> obj, next |-> d + 1]
    ELSE IF s[d] = 44 THEN JsonMembers(s, SkipJsonSpace(s, d + 1), obj)
    ELSE NoneRec

\* the member with the given key and the value v
JsonMember(s, key, v, acc) ==
    IF v = NoneRec THEN NoneRec
    ELSE JsonAfterMember(s, SkipJsonSpace(s, v.next), (key :> v.val) @@ acc)

\* the member whose key closes at close, the next token being at colon
JsonKeyed(s, i, close, colon, acc) ==
    IF colon > Len(s) \/ s[colon] # 58 THEN NoneRec
    ELSE JsonMember(s, SubSeq(s, i + 1, close - 1),
                    JsonValue(s, SkipJsonSpace(s, colon + 1)), acc)

JsonKeyClosed(s, i, close, acc) ==
    IF close = 0 THEN NoneRec
    ELSE JsonKeyed(s, i, close, SkipJsonSpace(s, close + 1), acc)

JsonMembers(s, i, acc) ==
    IF i > Len(s) \/ s[i] # 34 THEN NoneRec
    ELSE JsonKeyClosed(s, i, StringClose(s, i), acc)

\* the document is the object r and nothing but white space after it
JsonDocument(s, r) ==
    IF r = NoneRec THEN Raise("JSONDecodeError")
    ELSE IF SkipJsonSpace(s, r.next) <= Len(s) THEN Raise("JSONDecodeError")
    ELSE [obj |-> r.obj]

\* the object opened at i, its first token being at j
JsonObject(s, i, j) ==
    IF i > Len(s) \/ s[i] # 123 THEN Raise("JSONDecodeError")
    ELSE IF j <= Len(s) /\ s[j] = 125
         THEN JsonDocument(s, [obj |-> EmptyDict, next |-> j + 1])
    ELSE JsonDocument(s, JsonMembers(s, j, EmptyDict))

JsonObjectAt(s, i) == JsonObject(s, i, SkipJsonSpace(s, i + 1))

\* json.loads(s): [obj |-> the dict], or JSONDecodeError
json_loads(s) == JsonObjectAt(s, SkipJsonSpace(s, 1))

---------------------------------------------------------------------------
(* TransactionParser.parse *)

\* float of the digits w before and f after the point, negative if neg
FloatOfDigits(neg, w, f) ==
    IF /\ \A i \in 1..Len(w) : IsDigit(w[i])
       /\ \A i \in 1..Len(f) : IsDigit(f[i])
       /\ Len(w) + Len(f) > 0
    THEN Dec(neg /\ \E i \in 1..Len(w \o f) : (w \o f)[i] # 48,
             [i \in 1..Len(w) |-> w[i] - 48], [i \in 1..Len(f) |-> f[i] - 48])
    ELSE Raise("ValueError")

FloatOfPointed(neg, u, dot) ==
    FloatOfDigits(neg, SubSeq(u, 1, dot - 1), SubSeq(u, dot + 1, Len(u)))

FloatOfUnsigned(neg, u, dots) ==
    FloatOfPointed(neg, u, IF dots = {} THEN Len(u) + 1 ELSE Leftmost(dots))

FloatOfSigned(neg, u) == FloatOfUnsigned(neg, u, {i \in 1..Len(u) : u[i] = 46})

FloatOfStripped(t) ==
    IF t # <<>> /\ t[1] \in {43, 45} THEN FloatOfSigned(t[1] = 45, Tail(t))
    ELSE FloatOfSigned(FALSE, t)

\* float(s) of a str: white space stripped, an optional sign, digits with an
\* optional point; zero has no sign (0.0 == -0.0)
FloatOfStr(s) == FloatOfStripped(StripChars(s, WhiteSpace))

\* float(v) of a value of a decoded document
Float(v) ==
    IF v = None THEN Raise("TypeError")
    ELSE IF v = True THEN Whole(1)
    ELSE IF v = False THEN Whole(0)
    ELSE FloatOfStr(IF IsNumber(v) THEN Tail(v) ELSE v)

\* dict.get(key)
Get(d, key) == IF key \in DOMAIN d THEN d[key] ELSE None

\* "except (json.JSONDecodeError, ValueError, KeyError)": these are raised again
\* as the ValueError of parse, any other exception leaves parse as it is
ParseExcept(raised) ==
    IF raised.exc \in {"JSONDecodeError", "ValueError", "KeyError"}
    THEN Raise("ValueError")
    ELSE raised

\* "return TransactionData(...)": amount is float(data['amount'])
ParseReturn(amount, d) ==
    IF Raised(amount) THEN ParseExcept(amount)
    ELSE IF ~IsStr(d[key_currency]) THEN ParseExcept(Raise("AttributeError"))
    ELSE TransactionData(amount, UpperStr(d[key_currency]), d[key_recipient],
                         Get(d, key_account_number), Get(d, key_iban),
                         Get(d, key_description))

\* the mandatory keys, then the record
ParseData(d) ==
    IF ~({key_amount, key_currency, key_recipient} \subseteq DOMAIN d)
    THEN ParseExcept(Raise("ValueError"))
    ELSE ParseReturn(Float(d[key_amount]), d)

\* what parse does with what json.loads returned or raised
ParseLoaded(loaded) ==
    IF Raised(loaded) THEN ParseExcept(loaded) ELSE ParseData(loaded.obj)

\* what parse does with what _extract_with_regex returned or raised: the dict
\* has every key, its amount is a float and its currency a str
ParseExtracted(regex_data) ==
    IF Raised(regex_data) THEN ParseExcept(regex_data)
    ELSE TransactionData(regex_data.amount, UpperStr(regex_data.currency),
                         regex_data.recipient, regex_data.account_number,
                         regex_data.iban, regex_data.description)

\* a parse that tries the patterns first and decodes a block only when they
\* find no amount
parse_patterns_first(text_arg) ==
    IF Raised(extract_with_regex(text_arg))
       /\ Contains(text_arg, <<123>>) /\ Contains(text_arg, <<125>>)
    THEN ParseLoaded(json_loads(
             SubSeq(text_arg,
                    Leftmost({i \in 1..Len(text_arg) : text_arg[i] = 123}),
                    Rightmost({i \in 1..Len(text_arg) : text_arg[i] = 125}))))
    ELSE ParseExtracted(extract_with_regex(text_arg))

\* TransactionParser.parse(text)
parse(text_arg) ==
    IF Contains(text_arg, <<123>>) /\ Contains(text_arg, <<125>>)
    THEN ParseLoaded(json_loads(
             SubSeq(text_arg,
                    Leftmost({i \in 1..Len(text_arg) : text_arg[i] = 123}),
                    Rightmost({i \in 1..Len(text_arg) : text_arg[i] = 125}))))
    ELSE ParseExtracted(extract_with_regex(text_arg))

---------------------------------------------------------------------------
(* TransactionProcessor *)

\* the two shapes of the dict process_transaction returns (the timestamp is
\* left out); the error is str(e), identified by the type of e
Success(transaction_data, validation_result, method) ==
    [transaction_data |-> transaction_data,
     validation_result |-> validation_result,
     processing_method |-> method]

Failure(e) ==
    [transaction_data |-> NoneRec,
     validation_result |-> NoneRec,
     error |-> e.exc,
     processing_method |-> "Error"]

\* the types of the exceptions raised here; each derives from Exception
ExceptionTypes ==
    {"Exception", "ValueError", "TypeError", "AttributeError", "KeyError",
     "JSONDecodeError"}

\* the "except Exception" of _extract_with_llm
LlmExcept(e) == e.exc \in ExceptionTypes

\* an except clause that catches ValueError only
ExceptValueErrorOnly(e) == e.exc = "ValueError"

\* the "except Exception" of process_transaction
ProcessExcept(e) == e.exc \in ExceptionTypes

\* an except clause of _extract_with_llm that lets the failure through
LlmNoFallback(answered, text_arg) == answered

\* the except clause of _extract_with_llm: the original text is parsed
LlmFallback(answered, text_arg) ==
    IF Raised(answered) /\ LlmExcept(answered) THEN parse(text_arg)
    ELSE answered

\* TransactionProcessor._extract_with_llm(text): the adapter is called once; if
\* it raises, or parse raises on its answer, the original text is parsed
extract_with_llm(adapter, text_arg) ==
    LlmFallback(IF adapter.raises THEN Raise("Exception") ELSE parse(adapter.text),
                text_arg)

\* the end of process_transaction: the dict it returns
ProcessReturn(transaction_data, validation_result, method) ==
    IF ~Raised(validation_result)
    THEN Success(transaction_data, validation_result, method)
    ELSE IF ProcessExcept(validation_result) THEN Failure(validation_result)
    ELSE validation_result

\* process_transaction once the record is extracted, or extraction has raised
ProcessExtracted(self_validator, transaction_data, method) ==
    ProcessReturn(transaction_data,
                  IF Raised(transaction_data) THEN transaction_data
                  ELSE validate_transaction(self_validator, transaction_data),
                  method)

\* a processing_method that ignores the adapter
ProcessingMethodRegex(self_llm) == "Regex"

\* "'processing_method': 'LLM' if self.llm else 'Regex'"
ProcessingMethod(self_llm) == IF self_llm THEN "LLM" ELSE "Regex"

\* TransactionProcessor.process_transaction(text)
process_transaction(self_llm, adapter, self_validator, text_arg) ==
    ProcessExtracted(self_validator,
                     IF self_llm THEN extract_with_llm(adapter, text_arg)
                     ELSE parse(text_arg),
                     ProcessingMethod(self_llm))

---------------------------------------------------------------------------
(* utils.validate_account_number (src/utils.py) *)

\* valid_prefixes of utils.validate_account_number
valid_prefixes ==
    <<<<52, 48, 56>>, <<52, 48, 55>>, <<52, 48, 53>>, <<52, 50, 51>>, <<52, 50, 54>>,
      <<52, 48, 56, 49, 55>>, <<52, 48, 56, 50, 48>>>>

\* the dict returned for the cleaned account: 'valid' with the 'reason' of a
\* refusal or with the 'type' and the 'formatted' number
utils_checked(clean_account) ==
    IF ~IsDigitStr(clean_account) THEN [valid |-> FALSE, reason |-> "digits"]
    ELSE IF Len(clean_account) < 10 THEN [valid |-> FALSE, reason |-> "short"]
    ELSE IF Len(clean_account) > 25 THEN [valid |-> FALSE, reason |-> "long"]
    ELSE [valid |-> TRUE,
          type |-> IF /\ Len(clean_account) = 20
                      /\ \E i \in 1..Len(valid_prefixes) :
                           StartsAt(clean_account, 1, valid_prefixes[i])
                   THEN "Russian" ELSE "International",
          formatted |-> clean_account]

\* utils.validate_account_number(account)
utils_validate_account_number(account) ==
    IF ~Truthy(account) THEN [valid |-> FALSE, reason |-> "empty"]
    ELSE utils_checked(RemoveChars(account, {32, 9, 10, 11, 12, 13, 45}))

---------------------------------------------------------------------------
(* TransactionProcessor.get_statistics *)

\* the natural number written with the digits d
RECURSIVE ValueOf(_)
ValueOf(d) == IF d = <<>> THEN 0 ELSE 10 * ValueOf(SubSeq(d, 1, Len(d) - 1)) + d[Len(d)]

RECURSIVE Pow10(_)
Pow10(k) == IF k = 0 THEN 1 ELSE 10 * Pow10(k - 1)

\* the digits d followed by zeros up to k digits, and preceded by zeros up to k digits
PadRight(d, k) == d \o [i \in 1..(k - Len(d)) |-> 0]
PadLeft(d, k) == [i \in 1..(k - Len(d)) |-> 0] \o d

\* the float x as a number of 10^-k
Scaled(x, k) ==
    (IF x.neg THEN -1 ELSE 1) * (ValueOf(x.w) * Pow10(k) + ValueOf(PadRight(x.f, k)))

\* the float of n * 10^-k
Unscaled(n, k) ==
    LET m == IF n < 0 THEN -n ELSE n
    IN  Dec(n < 0, Digits(m \div Pow10(k)), PadLeft(Digits(m % Pow10(k)), k))

\* x + y of two floats: the decimal sum, which is the float sum when the
\* terms and the sum have a fraction that is a multiple of 1/4
FloatAdd(x, y) ==
    LET k == IF Len(x.f) > Len(y.f) THEN Len(x.f) ELSE Len(y.f)
    IN  Unscaled(Scaled(x, k) + Scaled(y, k), k)

\* sum(1 for r in results if r['transaction_data'] is not None)
CountSuccessful(results_arg) ==
    Cardinality({i \in 1..Len(results_arg) : results_arg[i].transaction_data # NoneRec})

\* a count of the results that have a verdict, valid or not
CountValidated(results_arg) ==
    Cardinality({i \in 1..Len(results_arg) : results_arg[i].validation_result # NoneRec})

\* sum(1 for r in results if r['validation_result'] and r['validation_result']['is_valid'])
CountValid(results_arg) ==
    Cardinality({i \in 1..Len(results_arg) :
                   /\ results_arg[i].validation_result # NoneRec
                   /\ results_arg[i].validation_result.is_valid})

\* the dicts currencies and total_amounts after the first n results
RECURSIVE StatisticsLoop(_, _)
StatisticsLoop(results_arg, n) ==
    IF n = 0 THEN [currencies |-> <<>>, total_amounts |-> <<>>]
    ELSE LET before == StatisticsLoop(results_arg, n - 1)
             r == results_arg[n]
         IN  IF r.transaction_data = NoneRec THEN before
             ELSE LET currency == r.transaction_data.currency
                      amount == r.transaction_data.amount
                      seen == currency \in DOMAIN before.currencies
                  IN  [currencies |->
                           IF seen
                           THEN [before.currencies EXCEPT ![currency] = @ + 1]
                           ELSE before.currencies @@ (currency :> 1),
                       total_amounts |->
                           IF seen
                           THEN [before.total_amounts EXCEPT ![currency] = FloatAdd(@, amount)]
                           ELSE before.total_amounts @@ (currency :> FloatAdd(Whole(0), amount))]

\* count / total * 100 if total > 0 else 0, kept as the fraction num / den
Rate(count, total) ==
    IF total > 0 THEN [num |-> count * 100, den |-> total] ELSE [num |-> 0, den |-> 1]

\* TransactionProcessor.get_statistics; processing_timestamp is left out
get_statistics(results_arg) ==
    [total_transactions |-> Len(results_arg),
     successful_extractions |-> CountSuccessful(results_arg),
     valid_transactions |-> CountValid(results_arg),
     success_rate |-> Rate(CountSuccessful(results_arg), Len(results_arg)),
     validation_rate |-> Rate(CountValid(results_arg), Len(results_arg)),
     currencies |-> StatisticsLoop(results_arg, Len(results_arg)).currencies,
     total_amounts |-> StatisticsLoop(results_arg, Len(results_arg)).total_amounts]

---------------------------------------------------------------------------
(* app_production.py: what the pages do with a result of process_transaction *)

\* EncryptionManager.encrypt_data(data): the Fernet token of data, a str that
\* is written here as the mark -5 followed by the data it decrypts to
encrypt_data(d) == << -5 >> \o d

\* EncryptionManager.mask_sensitive_data(data, "account" | "iban")
mask_sensitive_data(d) ==
    IF d = <<>> THEN d
    ELSE IF Len(d) > 8
         THEN SubSeq(d, 1, 4) \o [i \in 1..(Len(d) - 8) |-> 42] \o SubSeq(d, Len(d) - 3, Len(d))
    ELSE [i \in 1..Len(d) |-> 42]

\* transaction_data.<field> = encrypt_sensitive_data(transaction_data.<field>):
\* result['transaction_data'] and result['validation_result']['transaction']
\* are one object, so the assignment shows in both
EncryptAccount(r) ==
    [r EXCEPT !.transaction_data.account_number = encrypt_data(@),
              !.validation_result.transaction.account_number = encrypt_data(@)]
EncryptIban(r) ==
    [r EXCEPT !.transaction_data.iban = encrypt_data(@),
              !.validation_result.transaction.iban = encrypt_data(@)]

\* what can go wrong while an item is encrypted and saved
Mishaps == {"none", "encrypt_account", "encrypt_iban", "save_transaction"}

\* the row DatabaseManager.save_transaction inserts
Row(transaction_data, validation_result, original_text) ==
    [amount |-> transaction_data.amount,
     currency |-> transaction_data.currency,
     recipient |-> transaction_data.recipient,
     account_number |-> transaction_data.account_number,
     iban |-> transaction_data.iban,
     description |-> transaction_data.description,
     original_text |-> original_text,
     is_valid |-> validation_result.is_valid,
     validation_errors |-> validation_result.errors,
     validation_warnings |-> validation_result.warnings]

\* the save step on the result r whose fields have been encrypted
SaveStep(r, original_text, mishap) ==
    IF mishap = "save_transaction" THEN [result |-> r, raised |-> TRUE, rows |-> <<>>]
    ELSE [result |-> r, raised |-> FALSE,
          rows |-> <<Row(r.transaction_data, r.validation_result, original_text)>>]

\* the IBAN step on the result r whose account number has been encrypted
IbanStep(r, original_text, mishap) ==
    IF Truthy(r.transaction_data.iban)
    THEN IF mishap = "encrypt_iban" THEN [result |-> r, raised |-> TRUE, rows |-> <<>>]
         ELSE SaveStep(EncryptIban(r), original_text, mishap)
    ELSE SaveStep(r, original_text, mishap)

\* "encrypt and save" of both pages for a result r that has a record: the
\* result afterwards, whether an exception left the block, the rows inserted
EncryptAndSave(r, original_text, mishap) ==
    IF Truthy(r.transaction_data.account_number)
    THEN IF mishap = "encrypt_account" THEN [result |-> r, raised |-> TRUE, rows |-> <<>>]
         ELSE IbanStep(EncryptAccount(r), original_text, mishap)
    ELSE IbanStep(r, original_text, mishap)

\* show_transaction_result(result): the display_data it builds (amount,
\* recipient and description are displayed as they are)
show_transaction_result(r) ==
    IF r.transaction_data = NoneRec THEN [shown |-> FALSE]
    ELSE [shown |-> TRUE,
          account |-> IF Truthy(r.transaction_data.account_number)
                      THEN mask_sensitive_data(r.transaction_data.account_number) ELSE None,
          iban |-> IF Truthy(r.transaction_data.iban)
                   THEN mask_sensitive_data(r.transaction_data.iban) ELSE None]

\* show_transaction_analysis after process_transaction returned r: the value
\* of "result" at the end, the rows inserted and what was displayed; an
\* exception skips show_transaction_result
AnalysisDone(r, done) ==
    [result |-> done.result, rows |-> done.rows,
     display |-> IF done.raised THEN [shown |-> FALSE] ELSE show_transaction_result(done.result)]
Analysis(r, original_text, mishap) ==
    IF r.transaction_data # NoneRec
    THEN AnalysisDone(r, EncryptAndSave(r, original_text, mishap))
    ELSE [result |-> r, rows |-> <<>>, display |-> show_transaction_result(r)]

\* one iteration of the loop of process_batch_file after process_transaction
\* returned r: the result as the list holds it, the rows inserted and the
\* increments of the two counters
FileItemCounted(done) ==
    [result |-> done.result, rows |-> done.rows,
     successful |-> 1, failed |-> IF done.raised THEN 1 ELSE 0]
FileItem(r, original_text, mishap) ==
    IF r.transaction_data # NoneRec
    THEN FileItemCounted(EncryptAndSave(r, original_text, mishap))
    ELSE [result |-> r, rows |-> <<>>, successful |-> 0, failed |-> 1]

---------------------------------------------------------------------------
(* security.py: SecurityManager.authenticate_user *)

MAX_LOGIN_ATTEMPTS == 5
LOCKOUT_DURATION_MINUTES == 15

\* the line AuditManager.log_event appends (AUDIT_LOG_ENABLED is True)
AuditEvent(action, username, at) == [action |-> action, username |-> username, at |-> at]

\* _is_user_locked(username) at the time "at": what it returns and the
\* locked_users it leaves (an expired entry is deleted)
is_user_locked(locked, username, at) ==
    IF username \in DOMAIN locked
    THEN IF at < locked[username]
         THEN [locked |-> TRUE, locked_users |-> locked]
         ELSE [locked |-> FALSE,
               locked_users |-> [u \in DOMAIN locked \ {username} |-> locked[u]]]
    ELSE [locked |-> FALSE, locked_users |-> locked]

\* _increment_failed_attempts(username) at the time "at": the locked_users it leaves
increment_failed_attempts(locked, username, at) ==
    IF username \notin DOMAIN locked
    THEN IF username = "admin"
         THEN locked @@ (username :> at + LOCKOUT_DURATION_MINUTES)
         ELSE locked
    ELSE locked

\* authenticate_user after the lock test answered "state": the event it
\* logs and the locked_users it leaves; the token is returned exactly when
\* the event is LOGIN_SUCCESS
Authenticated(state, username, password, at) ==
    IF state.locked
    THEN [event |-> AuditEvent("LOGIN_ATTEMPT", username, at),
          locked_users |-> state.locked_users]
    ELSE IF username = "admin" /\ password = "admin123"
    THEN [event |-> AuditEvent("LOGIN_SUCCESS", username, at),
          locked_users |-> state.locked_users]
    ELSE [event |-> AuditEvent("LOGIN_FAILED", username, at),
          locked_users |-> increment_failed_attempts(state.locked_users, username, at)]

\* SecurityManager.authenticate_user(username, password, ip_address)
authenticate_user(locked, username, password, at) ==
    Authenticated(is_user_locked(locked, username, at), username, password, at)

---------------------------------------------------------------------------
(* The state of the callers of the transaction engine before they have run *)

\* the threads that call create_alert: the monitoring loop and the callers of
\* get_system_status and of MonitoringManager.create_alert
Threads == {"background", "foreground"}

ApplicationIdle ==
    /\ statistics = NoneRec
    /\ table = <<>>
    /\ display = NoneRec
    /\ successful = 0
    /\ failed = 0
    /\ reported = NoneRec
    /\ pending = FALSE
    /\ locked_users = <<>>
    /\ audit = <<>>
    /\ alerts = <<>>
    /\ alert_id_counter = 0
    /\ pc = [t \in Threads |-> "idle"]
    /\ local = [t \in Threads |-> NoneRec]
    /\ clock = 0

---------------------------------------------------------------------------
(* Inputs of the validator: records a caller can construct *)

MaxNameParts == 2
MaxCalls == 2
Validators == {1, 2}

XXX == <<88, 88, 88>>  \* 'XXX', a currency code outside every table

name_Ivanov == <<1048, 1074, 1072, 1085, 1086, 1074, 32>>  \* 'Иванов '
name_SANCTIONS == <<1057, 1040, 1053, 1050, 1062, 1048, 1048>>  \* 'САНКЦИИ'
name_BlockedWeapon ==
    <<66, 108, 111, 99, 107, 101, 100, 32, 1086, 1088, 1091, 1078, 1080, 1077>>  \* 'Blocked оружие'
name_x == <<120>>  \* 'x'
\* 51 letters: 'Abcde' ten times and 'Z'
name_Long == Concat([i \in 1..10 |-> <<65, 98, 99, 100, 101>>]) \o <<90>>

NameParts == {name_Ivanov, name_SANCTIONS, name_BlockedWeapon, name_x, name_Long}

\* the names made of at most k parts
RECURSIVE NamesOf(_)
NamesOf(k) ==
    IF k = 0 THEN {<<>>}
    ELSE LET shorter == NamesOf(k - 1)
         IN  shorter \cup {p \o s : p \in NameParts, s \in shorter}

iban_DE == <<68, 69, 56, 57, 51, 55, 48, 52, 48, 48, 52, 52, 48, 53, 51, 50, 48, 49, 51, 48, 48, 48>>  \* 'DE89370400440532013000'
iban_short == <<68, 69, 49, 50, 51>>  \* 'DE123'
account_ru == <<52, 48, 56, 49, 55, 56, 49, 48, 49, 50, 51, 52, 53, 54, 55, 56, 57, 48, 49, 50>>  \* '40817810123456789012'
account_bad == <<49, 50, 65, 66>>  \* '12AB'

ValAmounts ==
    {Dec(TRUE, <<5>>, <<>>), AndHalf(0), Whole(1), Whole(100), Whole(5000), AndHalf(5000),
     AndHalf(8500), Whole(10000), AndHalf(10000), Whole(15000), Whole(100000),
     AndHalf(100000), Whole(750000), Whole(800000)}
ValCurrencies == {USD, EUR, RUB, JPY, XXX}
ValRecipients == NamesOf(MaxNameParts)
ValIbans == {None, iban_DE, iban_short}
ValAccounts == {None, account_ru, account_bad}

ValRecords ==
    {TransactionData(a, c, r, acc, ib, None) :
        a \in ValAmounts, c \in ValCurrencies, r \in ValRecipients,
        acc \in ValAccounts, ib \in ValIbans}

---------------------------------------------------------------------------
(* The validator called on a record *)

InitValidate ==
    /\ validator = [v \in Validators |-> TransactionValidator]
    /\ transaction \in ValRecords
    /\ verdict = NoneRec
    /\ calls = 0
    /\ parts = <<>>
    /\ text = <<>>
    /\ data = NoneRec
    /\ llm = FALSE
    /\ response = NoneRec
    /\ result = NoneRec
    /\ record = NoneRec
    /\ texts = <<>>
    /\ answers = <<>>
    /\ results = <<>>
    /\ batch = NoneRec
    /\ check = NoneRec
    /\ ApplicationIdle

\* a call validator[v].validate_transaction(transaction) that also normalises
\* the recipient in place
ValidateCallInPlace(v) ==
    /\ calls < MaxCalls
    /\ verdict' = validate_transaction(validator[v], transaction)
    /\ transaction' = [transaction EXCEPT !.recipient = LowerStr(@)]
    /\ calls' = calls + 1
    /\ UNCHANGED <<validator, parserVars, processorVars, record, batchVars, check, applicationVars>>

\* a call validator[v].validate_transaction(transaction)
ValidateCall(v) ==
    /\ calls < MaxCalls
    /\ verdict' = validate_transaction(validator[v], transaction)
    /\ calls' = calls + 1
    /\ UNCHANGED <<validator, transaction, parserVars, processorVars, record, batchVars, check, applicationVars>>

NextValidate == \E v \in Validators : ValidateCall(v)

SpecValidate == InitValidate /\ [][NextValidate]_vars

---------------------------------------------------------------------------
(* The pattern extractor called on a text *)

MaxParts == 4

part_100 == <<49, 48, 48>>  \* '100'
part_2_50 == <<32, 50, 46, 53, 48>>  \* ' 2.50'
part_rubles == <<32, 1056, 1091, 1073, 1083, 1077, 1081>>  \* ' Рублей'
part_rub_sign == <<8381>>  \* '₽'
part_usd_sign == <<36>>  \* '$'
part_usd == <<32, 117, 115, 100>>  \* ' usd'
part_eur_sign == <<8364>>  \* '€'
part_space == <<32>>  \* ' '
part_to_John == <<32, 116, 111, 32, 74, 111, 104, 110, 32, 83, 109, 105, 116, 104>>  \* ' to John Smith'

NumberParts == {part_100, part_2_50}
RubCueParts == {part_rubles, part_rub_sign}
UsdCueParts == {part_usd_sign, part_usd}
EurCueParts == {part_eur_sign}
CueParts == RubCueParts \cup UsdCueParts \cup EurCueParts
ExtractParts == NumberParts \cup CueParts \cup {part_space, part_to_John}

\* the sequences of at most k parts
RECURSIVE PartSeqs(_, _)
PartSeqs(P, k) ==
    IF k = 0 THEN {<<>>}
    ELSE LET shorter == PartSeqs(P, k - 1)
         IN  shorter \cup {<<p>> \o ps : p \in P, ps \in shorter}

InitExtract ==
    /\ validator = [v \in Validators |-> TransactionValidator]
    /\ transaction = NoneRec
    /\ verdict = NoneRec
    /\ calls = 0
    /\ parts \in PartSeqs(ExtractParts, MaxParts)
    /\ text = Concat(parts)
    /\ data = NoneRec
    /\ llm = FALSE
    /\ response = NoneRec
    /\ result = NoneRec
    /\ record = NoneRec
    /\ texts = <<>>
    /\ answers = <<>>
    /\ results = <<>>
    /\ batch = NoneRec
    /\ check = NoneRec
    /\ ApplicationIdle

\* a call parser._extract_with_regex(text)
ExtractCall ==
    /\ data = NoneRec
    /\ data' = extract_with_regex(text)
    /\ UNCHANGED <<validatorVars, parts, text, processorVars, record, batchVars, check, applicationVars>>

NextExtract == ExtractCall

SpecExtract == InitExtract /\ [][NextExtract]_vars

---------------------------------------------------------------------------
(* The processor called on a text, with and without an adapter *)

MaxProcessParts == 2

name_Bob == <<66, 111, 98>>  \* 'Bob'
part_open == <<123>>  \* '{'
part_close == <<125>>  \* '}'
part_money == <<32, 109, 111, 110, 101, 121>>  \* ' money'

\* the text of a JSON object with the three mandatory members
Quoted(s) == <<34>> \o s \o <<34>>
Member(key, value_text) == Quoted(key) \o <<58, 32>> \o value_text
Document(amount, currency, recipient) ==
    <<123>> \o Member(key_amount, amount) \o <<44, 32>>
            \o Member(key_currency, currency) \o <<44, 32>>
            \o Member(key_recipient, recipient) \o <<125>>

doc_usd == Document(part_100, Quoted(LowerStr(USD)), Quoted(name_Bob))
doc_true == Document(lit_true, Quoted(LowerStr(RUB)), Quoted(name_Bob))
doc_null == Document(lit_null, Quoted(RUB), Quoted(name_Bob))
doc_recipient == Document(Quoted(part_2_50), Quoted(EUR), <<55>>)
doc_currency == Document(<<49>>, lit_null, Quoted(name_Bob))
doc_missing == <<123>> \o Member(key_amount, Quoted(<<53>>)) \o <<125>>

doc_xxx == Document(part_100, Quoted(XXX), Quoted(name_Bob))
part_cny == <<32, 67, 78, 89>>  \* ' CNY'
Documents == {doc_usd, doc_true, doc_null, doc_recipient, doc_currency, doc_missing}
ProcessParts ==
    Documents \cup {part_open, part_close, part_100, part_rubles, part_to_John,
                    part_money, part_space, part_cny, doc_xxx}

\* what the adapter can do when it is called: raise, or answer with a text
AdapterOutcomes ==
    {[raises |-> TRUE, text |-> <<>>]}
    \cup {[raises |-> FALSE, text |-> t] :
            t \in {doc_usd, doc_null, doc_missing, part_money, part_100, doc_xxx}}

InitProcess ==
    /\ validator = [v \in Validators |-> TransactionValidator]
    /\ transaction = NoneRec
    /\ verdict = NoneRec
    /\ calls = 0
    /\ parts \in PartSeqs(ProcessParts, MaxProcessParts)
    /\ text = Concat(parts)
    /\ data = NoneRec
    /\ llm \in BOOLEAN
    /\ response = NoneRec
    /\ result = NoneRec
    /\ record = NoneRec
    /\ texts = <<>>
    /\ answers = <<>>
    /\ results = <<>>
    /\ batch = NoneRec
    /\ check = NoneRec
    /\ ApplicationIdle

\* a call processor.process_transaction(text); response records what the
\* adapter did if it was called
ProcessCall ==
    /\ result = NoneRec
    /\ \E adapter \in AdapterOutcomes :
         /\ response' = IF llm THEN adapter ELSE NoneRec
         /\ result' = process_transaction(llm, adapter, validator[1], text)
    /\ UNCHANGED <<validatorVars, parserVars, llm, record, batchVars, check, applicationVars>>

NextProcess == ProcessCall

SpecProcess == InitProcess /\ [][NextProcess]_vars

---------------------------------------------------------------------------
(* The parser called on a text *)

MaxParseParts == 2

part_minus == <<32, 45>>  \* ' -'
word_abc == <<97, 98, 99>>  \* 'abc'
doc_negative == Document(<<45, 53>>, Quoted(RUB), Quoted(name_Bob))
doc_word == Document(Quoted(word_abc), Quoted(USD), Quoted(name_Bob))

ParseParts ==
    Documents \cup {doc_negative, doc_word, part_open, part_close, part_100,
                    part_rubles, part_money, part_space, part_minus}

InitParse ==
    /\ validator = [v \in Validators |-> TransactionValidator]
    /\ transaction = NoneRec
    /\ verdict = NoneRec
    /\ calls = 0
    /\ parts \in PartSeqs(ParseParts, MaxParseParts)
    /\ text = Concat(parts)
    /\ data = NoneRec
    /\ llm = FALSE
    /\ response = NoneRec
    /\ result = NoneRec
    /\ record = NoneRec
    /\ texts = <<>>
    /\ answers = <<>>
    /\ results = <<>>
    /\ batch = NoneRec
    /\ check = NoneRec
    /\ ApplicationIdle

\* a call parser.parse(text)
ParseCall ==
    /\ record = NoneRec
    /\ record' = parse(text)
    /\ UNCHANGED <<validatorVars, parserVars, processorVars, batchVars, check, applicationVars>>

NextParse == ParseCall

SpecParse == InitParse /\ [][NextParse]_vars

---------------------------------------------------------------------------
(* batch_process called on a list of texts, with and without an adapter *)

MaxBatch == 3

text_100_rubles == part_100 \o part_rubles  \* '100 Рублей'
text_2_50_rubles == part_2_50 \o part_rubles
BatchTexts == {doc_usd, part_money, text_100_rubles, text_2_50_rubles, doc_null}

\* what the adapter can do for one text of a batch
BatchAdapterOutcomes ==
    {[raises |-> TRUE, text |-> <<>>], [raises |-> FALSE, text |-> doc_usd]}

\* "results.append(result)" that leaves a failed result out
AppendUnlessFailed(list, r) == IF "error" \in DOMAIN r THEN list ELSE Append(list, r)

\* "results.append(result)"
AppendResult(list, r) == Append(list, r)

InitBatch ==
    /\ validator = [v \in Validators |-> TransactionValidator]
    /\ transaction = NoneRec
    /\ verdict = NoneRec
    /\ calls = 0
    /\ parts = <<>>
    /\ text = <<>>
    /\ data = NoneRec
    /\ llm \in BOOLEAN
    /\ response = NoneRec
    /\ result = NoneRec
    /\ record = NoneRec
    /\ texts \in PartSeqs(BatchTexts, MaxBatch)
    /\ answers = <<>>
    /\ results = <<>>
    /\ batch = NoneRec
    /\ check = NoneRec
    /\ ApplicationIdle

\* one iteration of the loop of batch_process: the next text is processed and
\* its result appended; answers records what the adapter did if it was called
BatchIteration ==
    /\ batch = NoneRec
    /\ Len(answers) < Len(texts)
    /\ \E adapter \in BatchAdapterOutcomes :
         /\ answers' = Append(answers, IF llm THEN adapter ELSE NoneRec)
         /\ results' = AppendResult(results,
                           process_transaction(llm, adapter, validator[1],
                                               texts[Len(answers) + 1]))
    /\ UNCHANGED <<validatorVars, parserVars, processorVars, record, texts, batch, check, applicationVars>>

\* "return results" after the last iteration
BatchReturn ==
    /\ batch = NoneRec
    /\ Len(answers) = Len(texts)
    /\ batch' = [results |-> results]
    /\ UNCHANGED <<validatorVars, parserVars, processorVars, record, texts,
                   answers, results, check, applicationVars>>

NextBatch == BatchIteration \/ BatchReturn

\* a call processor.get_statistics(results) on the list batch_process returned
StatisticsCall ==
    /\ batch # NoneRec
    /\ statistics = NoneRec
    /\ statistics' = get_statistics(batch.results)
    /\ UNCHANGED <<validatorVars, parserVars, processorVars, record, batchVars, check,
                   table, display, fileVars, serviceVars>>

NextStatistics == BatchIteration \/ BatchReturn \/ StatisticsCall

SpecBatch == InitBatch /\ [][NextBatch]_vars

SpecStatistics == InitBatch /\ [][NextStatistics]_vars

---------------------------------------------------------------------------
(* batch_process with the adapter call in flight: "response = self.llm(prompt)"
   starts when the iteration reaches it and ends when the adapter returns or
   raises; _extract_with_llm sets no timeout on the call *)

\* the iteration reaches the call of the adapter
AdapterCall ==
    /\ batch = NoneRec
    /\ llm
    /\ ~pending
    /\ Len(answers) < Len(texts)
    /\ pending' = TRUE
    /\ UNCHANGED <<validatorVars, parserVars, processorVars, record, batchVars, check,
                   statistics, table, display, fileVars, securityVars, monitoringVars, clock>>

\* the adapter returns or raises, and the iteration runs to its end
AdapterReturn ==
    /\ pending
    /\ \E adapter \in BatchAdapterOutcomes :
         /\ answers' = Append(answers, adapter)
         /\ results' = AppendResult(results,
                           process_transaction(llm, adapter, validator[1],
                                               texts[Len(answers) + 1]))
    /\ pending' = FALSE
    /\ UNCHANGED <<validatorVars, parserVars, processorVars, record, texts, batch, check,
                   statistics, table, display, fileVars, securityVars, monitoringVars, clock>>

\* batch_process of a processor that has an adapter
InitHang == InitBatch /\ llm

NextHang == AdapterCall \/ AdapterReturn \/ BatchReturn

\* the steps of batch_process are taken when they can be; nothing makes the
\* adapter answer
SpecHang ==
    /\ InitHang
    /\ [][NextHang]_vars
    /\ WF_vars(AdapterCall)
    /\ WF_vars(BatchReturn)

---------------------------------------------------------------------------
(* The IBAN check: called directly and through validate_transaction *)

MaxIbanLen == 35

\* n zeros
Zeros(n) == [i \in 1..n |-> 48]

\* an IBAN of n characters: country code, check characters, zeros, last character
IbanOf(cc, chk, n, last) == cc \o chk \o Zeros(n - 5) \o <<last>>

\* s with a space after its fourth character
Spaced(s) == SubSeq(s, 1, 4) \o <<32>> \o SubSeq(s, 5, Len(s))

IbanCountries ==
    {<<68, 69>>, <<100, 101>>, <<85, 83>>, <<82, 85>>, <<71, 66>>, <<70, 82>>,
     <<88, 88>>, <<68, 49>>}  \* DE, de, US, RU, GB, FR, XX, D1
IbanChecks == {<<56, 57>>, <<56, 65>>}  \* 89, 8A
IbanLast == {48, 90, 122, 45, 10}  \* 0, Z, z, -, line feed

IbanInputs ==
    {None, <<>>, iban_DE, iban_short}
    \cup {IbanOf(cc, chk, n, last) :
            cc \in IbanCountries, chk \in IbanChecks, n \in 5..MaxIbanLen, last \in IbanLast}
    \cup {Spaced(IbanOf(cc, <<56, 57>>, n, 48)) : cc \in IbanCountries, n \in 5..MaxIbanLen}

InitIban ==
    /\ validator = [v \in Validators |-> TransactionValidator]
    /\ transaction \in {TransactionData(Whole(1000), EUR, name_Bob, None, ib, None) :
                          ib \in IbanInputs}
    /\ verdict = NoneRec
    /\ calls = 0
    /\ parts = <<>>
    /\ text = <<>>
    /\ data = NoneRec
    /\ llm = FALSE
    /\ response = NoneRec
    /\ result = NoneRec
    /\ record = NoneRec
    /\ texts = <<>>
    /\ answers = <<>>
    /\ results = <<>>
    /\ batch = NoneRec
    /\ check = NoneRec
    /\ ApplicationIdle

\* a call validator._validate_iban(transaction.iban) on a str
IbanCall ==
    /\ check = NoneRec
    /\ transaction.iban # None
    /\ check' = [valid |-> validate_iban(transaction.iban)]
    /\ UNCHANGED <<validatorVars, parserVars, processorVars, record, batchVars, applicationVars>>

NextIban == IbanCall \/ \E v \in Validators : ValidateCall(v)

SpecIban == InitIban /\ [][NextIban]_vars

---------------------------------------------------------------------------
(* The two account-number checks called on the same str *)

MaxAccountLen == 26

AccountPrefixes ==
    {<<52, 48, 56>>, <<52, 48, 55>>, <<52, 48, 53>>, <<52, 50, 51>>, <<52, 50, 54>>,
     <<52, 48, 57>>, <<49, 50, 51>>, <<52, 48, 65>>}  \* 408 407 405 423 426 409 123 40A
AccountSeparators == {<<>>, <<32>>, <<45>>, <<32, 45, 32>>}

\* an account of n characters besides the separator put after its prefix
AccountOf(prefix, sep, n, last) == prefix \o sep \o Zeros(n - 4) \o <<last>>

AccountInputs ==
    {<<>>, account_ru, account_bad}
    \cup {AccountOf(prefix, sep, n, last) :
            prefix \in AccountPrefixes, sep \in AccountSeparators,
            n \in 4..MaxAccountLen, last \in {48, 120}}

InitAccount ==
    /\ validator = [v \in Validators |-> TransactionValidator]
    /\ transaction \in {TransactionData(Whole(1000), RUB, name_Bob, acc, None, None) :
                          acc \in AccountInputs}
    /\ verdict = NoneRec
    /\ calls = 0
    /\ parts = <<>>
    /\ text = <<>>
    /\ data = NoneRec
    /\ llm = FALSE
    /\ response = NoneRec
    /\ result = NoneRec
    /\ record = NoneRec
    /\ texts = <<>>
    /\ answers = <<>>
    /\ results = <<>>
    /\ batch = NoneRec
    /\ check = [validator |-> NoneRec, utils |-> NoneRec]
    /\ ApplicationIdle

\* a call validator._validate_account_number(transaction.account_number)
ValidatorAccountCall ==
    /\ check.validator = NoneRec
    /\ check' = [check EXCEPT
                   !.validator = [valid |-> validate_account_number(transaction.account_number)]]
    /\ UNCHANGED <<validatorVars, parserVars, processorVars, record, batchVars, applicationVars>>

\* a call utils.validate_account_number(transaction.account_number)
UtilsAccountCall ==
    /\ check.utils = NoneRec
    /\ check' = [check EXCEPT
                   !.utils = utils_validate_account_number(transaction.account_number)]
    /\ UNCHANGED <<validatorVars, parserVars, processorVars, record, batchVars, applicationVars>>

NextAccount == ValidatorAccountCall \/ UtilsAccountCall

SpecAccount == InitAccount /\ [][NextAccount]_vars

---------------------------------------------------------------------------
(* The pattern extractor called on a text with a recipient marker, a name of
   several words and what ends the name *)

MaxNameWords == 3

rm_poluchatelyu == <<32, 1087, 1086, 1083, 1091, 1095, 1072, 1090, 1077, 1083, 1102, 32>>  \* ' получателю '
rm_recipient == <<32, 114, 101, 99, 105, 112, 105, 101, 110, 116, 32>>  \* ' recipient '
rm_to == <<32, 116, 111, 32>>  \* ' to '
word_Hans == <<72, 97, 110, 115>>  \* 'Hans'
word_Weber == <<87, 101, 98, 101, 114>>  \* 'Weber'
word_Ivanov == <<1048, 1074, 1072, 1085, 1086, 1074>>  \* 'Иванов'
word_Ivan == <<1048, 1074, 1072, 1085>>  \* 'Иван'
end_account == <<32, 1089, 1095, 1077, 1090, 32, 52, 48, 56, 49, 55, 56, 49, 48, 49, 50, 51, 52, 53, 54, 55, 56, 57, 48, 49, 50>>  \* ' счет 40817810123456789012'
end_iban == <<32, 73, 66, 65, 78, 32, 68, 69, 56, 57, 51, 55, 48, 52, 48, 48, 52, 52, 48, 53, 51, 50, 48, 49, 51, 48, 48, 48>>  \* ' IBAN DE89370400440532013000'
end_comma == <<44, 32, 53>>  \* ', 5'
end_text == <<>>

RecipientMarkers == {rm_poluchatelyu, rm_recipient, rm_to}
NameWords == {word_Hans, word_Weber, word_Ivanov, word_Ivan}
NameEnds == {end_account, end_iban, end_comma, end_text}

\* the sequences of 1..k words
WordSeqs(k) == PartSeqs(NameWords, k) \ {<<>>}

\* the words joined by single spaces
RECURSIVE Joined(_)
Joined(ws) ==
    IF Len(ws) = 1 THEN ws[1]
    ELSE ws[1] \o <<32>> \o Joined(Tail(ws))

\* parts: the amount, the marker, the words of the name, the end of the name
InitRecipient ==
    /\ validator = [v \in Validators |-> TransactionValidator]
    /\ transaction = NoneRec
    /\ verdict = NoneRec
    /\ calls = 0
    /\ parts \in {<<part_100, marker>> \o ws \o <<e>> :
                    marker \in RecipientMarkers, ws \in WordSeqs(MaxNameWords), e \in NameEnds}
    /\ text = parts[1] \o parts[2] \o Joined(SubSeq(parts, 3, Len(parts) - 1))
                \o parts[Len(parts)]
    /\ data = NoneRec
    /\ llm = FALSE
    /\ response = NoneRec
    /\ result = NoneRec
    /\ record = NoneRec
    /\ texts = <<>>
    /\ answers = <<>>
    /\ results = <<>>
    /\ batch = NoneRec
    /\ check = NoneRec
    /\ ApplicationIdle

NextRecipient == ExtractCall

SpecRecipient == InitRecipient /\ [][NextRecipient]_vars

---------------------------------------------------------------------------
(* The pages of the application: the analysis of one text and the file of
   texts, in one session with one processor (no adapter) and one database *)

MaxFile == 2

part_to_Bob == <<32, 116, 111, 32, 66, 111, 98>>  \* ' to Bob'
part_account == <<32, 1089, 1095, 1077, 1090, 32, 52, 48, 56, 49, 55, 56, 49, 48, 49, 50, 51, 52, 53, 54, 55, 56, 57, 48, 49, 50>>  \* ' счет 40817810123456789012'
part_iban == <<32, 73, 66, 65, 78, 32, 68, 69, 56, 57, 51, 55, 48, 52, 48, 48, 52, 52, 48, 53, 51, 50, 48, 49, 51, 48, 48, 48>>  \* ' IBAN DE89370400440532013000'

text_account == part_100 \o part_rubles \o part_to_Bob \o part_account
text_both == text_account \o part_iban
AppTexts == {text_account, text_both, text_100_rubles, part_money}

\* the processor of the session has no adapter
NoAdapter == [raises |-> TRUE, text |-> <<>>]

InitApp ==
    /\ validator = [v \in Validators |-> TransactionValidator]
    /\ transaction = NoneRec
    /\ verdict = NoneRec
    /\ calls = 0
    /\ parts = <<>>
    /\ text \in AppTexts
    /\ data = NoneRec
    /\ llm = FALSE
    /\ response = NoneRec
    /\ result = NoneRec
    /\ record = NoneRec
    /\ texts \in PartSeqs(AppTexts, MaxFile)
    /\ answers = <<>>
    /\ results = <<>>
    /\ batch = NoneRec
    /\ check = NoneRec
    /\ ApplicationIdle

\* the page has finished with "after"
AnalysisFinish(after) ==
    /\ result' = after.result
    /\ table' = table \o after.rows
    /\ display' = after.display

\* show_transaction_analysis: the button is pressed with text in the field
ShowTransactionAnalysis ==
    /\ display = NoneRec
    /\ \E mishap \in Mishaps :
         AnalysisFinish(Analysis(process_transaction(llm, NoAdapter, validator[1], text),
                                 text, mishap))
    /\ UNCHANGED <<validatorVars, parserVars, llm, response, record, batchVars, check,
                   statistics, fileVars, serviceVars>>

\* the iteration has finished with "after"
FileIterationFinish(after) ==
    /\ results' = Append(results, after.result)
    /\ table' = table \o after.rows
    /\ successful' = successful + after.successful
    /\ failed' = failed + after.failed

\* one iteration of the loop of process_batch_file
FileIteration ==
    /\ reported = NoneRec
    /\ Len(results) < Len(texts)
    /\ \E mishap \in Mishaps :
         FileIterationFinish(FileItem(process_transaction(llm, NoAdapter, validator[1],
                                                          texts[Len(results) + 1]),
                                      texts[Len(results) + 1], mishap))
    /\ UNCHANGED <<validatorVars, parserVars, processorVars, record, texts, answers, batch,
                   check, statistics, display, reported, serviceVars>>

\* after the loop: the counts are logged and shown ("if transactions:")
FileComplete ==
    /\ reported = NoneRec
    /\ texts # <<>>
    /\ Len(results) = Len(texts)
    /\ reported' = [total |-> Len(texts), successful |-> successful, failed |-> failed]
    /\ UNCHANGED <<validatorVars, parserVars, processorVars, record, batchVars, check,
                   statistics, table, display, successful, failed, serviceVars>>

NextApp == ShowTransactionAnalysis \/ FileIteration \/ FileComplete

SpecApp == InitApp /\ [][NextApp]_vars

---------------------------------------------------------------------------
(* Logins: calls of authenticate_user while the clock moves on *)

MaxLogins == 6
MaxClock == 30

Usernames == {"admin", "alice"}
Passwords == {"admin123", "wrong"}

InitLogin ==
    /\ validator = [v \in Validators |-> TransactionValidator]
    /\ transaction = NoneRec
    /\ verdict = NoneRec
    /\ calls = 0
    /\ parts = <<>>
    /\ text = <<>>
    /\ data = NoneRec
    /\ llm = FALSE
    /\ response = NoneRec
    /\ result = NoneRec
    /\ record = NoneRec
    /\ texts = <<>>
    /\ answers = <<>>
    /\ results = <<>>
    /\ batch = NoneRec
    /\ check = NoneRec
    /\ ApplicationIdle

\* the call has finished with "after"
LoginFinish(after) ==
    /\ audit' = Append(audit, after.event)
    /\ locked_users' = after.locked_users

\* a call security_manager.authenticate_user(username, password, ip_address)
AuthenticateUser(username, password) ==
    /\ Len(audit) < MaxLogins
    /\ LoginFinish(authenticate_user(locked_users, username, password, clock))
    /\ UNCHANGED <<validatorVars, parserVars, processorVars, record, batchVars, check,
                   statistics, table, display, fileVars, pending, monitoringVars, clock>>

\* LOCKOUT_DURATION_MINUTES go by
Tick ==
    /\ clock + LOCKOUT_DURATION_MINUTES <= MaxClock
    /\ clock' = clock + LOCKOUT_DURATION_MINUTES
    /\ UNCHANGED <<validatorVars, parserVars, processorVars, record, batchVars, check,
                   statistics, table, display, fileVars, pending, securityVars,
                   monitoringVars>>

NextLogin ==
    \/ \E username \in Usernames, password \in Passwords : AuthenticateUser(username, password)
    \/ Tick

SpecLogin == InitLogin /\ [][NextLogin]_vars

---------------------------------------------------------------------------
(* AlertManager (src/monitoring.py): create_alert called by two threads, no
   lock is taken, so the threads interleave between the reads and the writes
   of alert_id_counter and of alerts *)

MaxAlerts == 3
MaxSeconds == 2

\* str(n) of a non-negative int
RECURSIVE DecimalOf(_)
DecimalOf(n) ==
    IF n < 10 THEN <<48 + n>> ELSE DecimalOf(n \div 10) \o <<48 + (n % 10)>>

\* f"alert_{self.alert_id_counter}_{int(time.time())}"
AlertId(counter, seconds) ==
    <<97, 108, 101, 114, 116, 95>> \o DecimalOf(counter) \o <<95>> \o DecimalOf(seconds)

\* Alert(id=alert_id, level=level, ...): resolved is False
Alert(id, level) == [id |-> id, level |-> level, resolved |-> FALSE]

\* the alerts resolve_alert(alert_id) marks resolved: the first one with that
\* id that is not resolved yet
Resolvable(list, alert_id) ==
    {i \in 1..Len(list) : list[i].id = alert_id /\ ~list[i].resolved}

\* AlertManager.resolve_alert(alert_id): the list after the call
resolve_alert(list, alert_id) ==
    IF Resolvable(list, alert_id) = {} THEN list
    ELSE [list EXCEPT ![Leftmost(Resolvable(list, alert_id))].resolved = TRUE]

AlertLevels == {"critical", "error"}

InitAlerts == InitLogin

\* a thread enters create_alert and builds alert_id from the counter and the
\* time it reads
CreateAlertCall(t, level) ==
    /\ pc[t] = "idle"
    /\ Len(alerts) + Cardinality({u \in Threads : pc[u] # "idle"}) < MaxAlerts
    /\ local' = [local EXCEPT ![t] = [level |-> level,
                                      alert_id |-> AlertId(alert_id_counter, clock),
                                      loaded |-> None]]
    /\ pc' = [pc EXCEPT ![t] = "load"]
    /\ UNCHANGED <<validatorVars, parserVars, processorVars, record, batchVars, check,
                   statistics, table, display, fileVars, pending, securityVars,
                   alerts, alert_id_counter, clock>>

\* "self.alert_id_counter += 1": the thread reads the counter
LoadCounter(t) ==
    /\ pc[t] = "load"
    /\ local' = [local EXCEPT ![t].loaded = alert_id_counter]
    /\ pc' = [pc EXCEPT ![t] = "store"]
    /\ UNCHANGED <<validatorVars, parserVars, processorVars, record, batchVars, check,
                   statistics, table, display, fileVars, pending, securityVars,
                   alerts, alert_id_counter, clock>>

\* "self.alert_id_counter += 1": the thread writes what it read, plus one
StoreCounter(t) ==
    /\ pc[t] = "store"
    /\ alert_id_counter' = local[t].loaded + 1
    /\ pc' = [pc EXCEPT ![t] = "append"]
    /\ UNCHANGED <<validatorVars, parserVars, processorVars, record, batchVars, check,
                   statistics, table, display, fileVars, pending, securityVars,
                   alerts, local, clock>>

\* "self.alerts.append(alert)", and the call returns
AppendAlert(t) ==
    /\ pc[t] = "append"
    /\ alerts' = Append(alerts, Alert(local[t].alert_id, local[t].level))
    /\ pc' = [pc EXCEPT ![t] = "idle"]
    /\ local' = [local EXCEPT ![t] = NoneRec]
    /\ UNCHANGED <<validatorVars, parserVars, processorVars, record, batchVars, check,
                   statistics, table, display, fileVars, pending, securityVars,
                   alert_id_counter, clock>>

\* a call resolve_alert(alert_id) with the id of an alert of the list
ResolveAlert(alert_id) ==
    /\ Resolvable(alerts, alert_id) # {}
    /\ alerts' = resolve_alert(alerts, alert_id)
    /\ UNCHANGED <<validatorVars, parserVars, processorVars, record, batchVars, check,
                   statistics, table, display, fileVars, pending, securityVars,
                   alert_id_counter, pc, local, clock>>

\* int(time.time()) moves on by a second
SecondTick ==
    /\ clock < MaxSeconds
    /\ clock' = clock + 1
    /\ UNCHANGED <<validatorVars, parserVars, processorVars, record, batchVars, check,
                   statistics, table, display, fileVars, pending, securityVars,
                   monitoringVars>>

NextAlerts ==
    \/ \E t \in Threads, level \in AlertLevels : CreateAlertCall(t, level)
    \/ \E t \in Threads : LoadCounter(t)
    \/ \E t \in Threads : StoreCounter(t)
    \/ \E t \in Threads : AppendAlert(t)
    \/ \E i \in 1..Len(alerts) : ResolveAlert(alerts[i].id)
    \/ SecondTick

SpecAlerts == InitAlerts /\ [][NextAlerts]_vars

---------------------------------------------------------------------------
(* Properties of validate_transaction (checked under SpecValidate) *)

Validated == verdict # NoneRec
HasError(m) == InList(m, verdict.errors)
HasWarning(m) == InList(m, verdict.warnings)
CountOf(m, list) == Cardinality({i \in 1..Len(list) : list[i] = m})

\* recipient contains keyword kw when both are compared without regard to case
ContainsIgnoreCase(s, kw) ==
    \E i \in 1..(Len(s) - Len(kw) + 1) :
        \A k \in 1..Len(kw) : LowerChar(s[i + k - 1]) = LowerChar(kw[k])

BlockedKeywords ==
    {kw_sanctions, kw_sanctioned, kw_blocked, kw_forbidden,
     kw_terror, kw_extremism, kw_drug, kw_weapon}

MatchingKeywords(recipient) == {kw \in BlockedKeywords : ContainsIgnoreCase(recipient, kw)}

C3_BlockedRecipient ==
    Validated =>
        IF MatchingKeywords(transaction.recipient) # {}
        THEN ~verdict.is_valid /\ CountOf("E_blocked", verdict.errors) = 1
        ELSE CountOf("E_blocked", verdict.errors) = 0

C3_Witness ==
    /\ Validated
    /\ Cardinality(MatchingKeywords(transaction.recipient)) >= 2
    /\ verdict.errors = <<"E_blocked">>

\* C4: no rule is skipped because of an earlier rule: each message is present
\* exactly when its own condition holds, errors in the order ceiling, floor,
\* blocked recipient, short recipient and warnings in the order currency,
\* long recipient, IBAN, account, large amount.
C4_NoShortCircuit ==
    Validated =>
        LET t == transaction
            a == t.amount
            c == t.currency
            hi == IF c = USD THEN 10000 ELSE IF c = EUR THEN 8500 ELSE 750000
            lo == IF c = RUB THEN 100 ELSE 1
            bounded == c \in {USD, EUR, RUB}
            large == \/ c = RUB /\ GreaterThan(a, 100000)
                     \/ c \in {USD, EUR} /\ GreaterThan(a, 5000)
        IN  /\ verdict.errors =
                   Appended(bounded /\ GreaterThan(a, hi), "E_ceiling")
                \o Appended(bounded /\ LessThan(a, lo), "E_floor")
                \o Appended(MatchingKeywords(t.recipient) # {}, "E_blocked")
                \o Appended(Len(t.recipient) < 2, "E_short")
            /\ verdict.warnings =
                   Appended(c \notin {USD, EUR, RUB, GBP, CHF, JPY}, "W_currency")
                \o Appended(Len(t.recipient) > 100, "W_long")
                \o Appended(Truthy(t.iban) /\ ~validate_iban(t.iban), "W_iban")
                \o Appended(Truthy(t.account_number)
                            /\ ~validate_account_number(t.account_number), "W_account")
                \o Appended(large, IF c = RUB THEN "W_large_rub" ELSE "W_large_fx")

C4_Witness ==
    /\ Validated
    /\ verdict.errors = <<"E_ceiling", "E_blocked">>
    /\ verdict.warnings = <<"W_iban", "W_account", "W_large_rub">>

CleanRecipient(recipient) ==
    /\ MatchingKeywords(recipient) = {}
    /\ Len(recipient) >= 2
    /\ Len(recipient) <= 100

C21_ThresholdAdvisory ==
    /\ Validated
    /\ transaction.currency = RUB
    /\ transaction.amount = Whole(100000)
    /\ CleanRecipient(transaction.recipient)
    /\ transaction.account_number = account_ru
    =>  /\ verdict.is_valid
        /\ HasWarning("W_large_rub")

---------------------------------------------------------------------------
(* Properties of _validate_iban (checked under SpecIban) *)

IbanChecked == check # NoneRec

\* the structure of an IBAN as it is written down: the value without its
\* spaces has 15..34 characters, two upper-case letters, two digits, then
\* upper-case letters or digits, and the exact length of its country
IbanStructure(value) ==
    LET v == RemoveChars(value, {32})
    IN  /\ Len(v) >= 15 /\ Len(v) <= 34
        /\ IsUpperAZ(v[1]) /\ IsUpperAZ(v[2])
        /\ IsDigit(v[3]) /\ IsDigit(v[4])
        /\ \A i \in 5..Len(v) : IsUpperAZ(v[i]) \/ IsDigit(v[i])
        /\ SubSeq(v, 1, 2) = <<82, 85>> => Len(v) = 33
        /\ SubSeq(v, 1, 2) = <<68, 69>> => Len(v) = 22
        /\ SubSeq(v, 1, 2) = <<70, 82>> => Len(v) = 27
        /\ SubSeq(v, 1, 2) = <<71, 66>> => Len(v) = 22

IbanPresent == transaction.iban # None /\ transaction.iban # <<>>

\* C17: the IBAN check passes exactly when the value without its spaces has
\* 15..34 characters, two upper-case letters, two digits and then upper-case
\* letters or digits, with the exact length of RU, DE, FR and GB; the record
\* gets one IBAN warning exactly when an IBAN is present and the check fails;
\* 'DE89370400440532013000' passes and 'DE123' fails.
C17_IbanStructure ==
    /\ IbanChecked => (check.valid <=> IbanStructure(transaction.iban))
    /\ IbanChecked /\ transaction.iban = iban_DE => check.valid
    /\ IbanChecked /\ transaction.iban = iban_short => ~check.valid
    /\ Validated =>
         CountOf("W_iban", verdict.warnings) =
             IF IbanPresent /\ ~IbanStructure(transaction.iban) THEN 1 ELSE 0

\* C18: a value that starts with "US" fails the IBAN check and gets the IBAN
\* warning, whatever its length and its other characters.
C18_UsDisallowed ==
    StartsAt(transaction.iban, 1, <<85, 83>>) =>
        /\ IbanChecked => ~check.valid
        /\ Validated => HasWarning("W_iban")

---------------------------------------------------------------------------
(* Properties of the account-number checks (checked under SpecAccount) *)

AccountsChecked == check.validator # NoneRec /\ check.utils # NoneRec

\* the account without its spaces and hyphens
Cleaned == RemoveChars(transaction.account_number, {32, 45})

AllDigits(s) == \A i \in 1..Len(s) : IsDigit(s[i])

FivePrefixes ==
    {<<52, 48, 56>>, <<52, 48, 55>>, <<52, 48, 53>>, <<52, 50, 51>>, <<52, 50, 54>>}

---------------------------------------------------------------------------
(* Properties of _extract_with_regex (checked under SpecExtract) *)

\* The numbers of the text, read off the parts it is made of: a number starts
\* at a number part that does not continue the number part before it, and
\* runs over the '100' parts that follow it directly.
Extracted == data # NoneRec
ContinuesNumber(i) ==
    i > 1 /\ i <= Len(parts) /\ parts[i] = part_100 /\ parts[i - 1] \in NumberParts
NumberStarts == {i \in 1..Len(parts) : parts[i] \in NumberParts /\ ~ContinuesNumber(i)}

RECURSIVE NumberLast(_)
NumberLast(i) == IF ContinuesNumber(i + 1) THEN NumberLast(i + 1) ELSE i

NumberValue(i) ==
    ParseNumber(StripChars(Concat(SubSeq(parts, i, NumberLast(i))), {32}))

\* the part that follows the number starting at part i, spaces skipped; <<>> if none
RECURSIVE PartAfterSpaces(_)
PartAfterSpaces(k) ==
    IF k > Len(parts) THEN <<>>
    ELSE IF parts[k] = part_space THEN PartAfterSpaces(k + 1)
    ELSE parts[k]

Followed(Cues) == {i \in NumberStarts : PartAfterSpaces(NumberLast(i) + 1) \in Cues}
CueCount == Cardinality({k \in 1..Len(parts) : parts[k] \in CueParts})

\* C6: a number followed by a RUB cue makes the result RUB with the leftmost
\* such number as the amount, wherever USD- or EUR-cued numbers stand; without
\* one, a number followed by a USD cue makes it USD with the leftmost such
\* number, wherever EUR-cued numbers stand.
C6_DeclarationPriority ==
    Extracted =>
        /\ Followed(RubCueParts) # {} =>
               /\ ~Raised(data)
               /\ data.currency = RUB
               /\ data.amount = NumberValue(Leftmost(Followed(RubCueParts)))
        /\ Followed(RubCueParts) = {} /\ Followed(UsdCueParts) # {} =>
               /\ ~Raised(data)
               /\ data.currency = USD
               /\ data.amount = NumberValue(Leftmost(Followed(UsdCueParts)))

C6_Witness ==
    /\ Extracted
    /\ parts = <<part_2_50, part_usd_sign, part_100, part_rub_sign>>
    /\ data.currency = RUB
    /\ data.amount = Whole(100)

\* C7 (the claim as stated): when the only currency cue of the text stands
\* directly before its first number, the result has that cue's currency and
\* that number as the amount.
C7_CueBeforeNumber ==
    Extracted =>
        \A k \in 1..(Len(parts) - 1) :
            /\ CueCount = 1
            /\ parts[k] \in CueParts
            /\ parts[k + 1] = part_100
            /\ NumberStarts \cap (1..k) = {}
            => /\ ~Raised(data)
               /\ data.amount = NumberValue(k + 1)
               /\ data.currency = IF parts[k] \in RubCueParts THEN RUB
                                  ELSE IF parts[k] \in UsdCueParts THEN USD
                                  ELSE EUR

---------------------------------------------------------------------------
(* Properties of the recipient pattern (checked under SpecRecipient) *)

\* the name written in the text after the marker
WrittenName == Joined(SubSeq(parts, 3, Len(parts) - 1))

\* C22: after a recipient marker, a name of several words separated by
\* single spaces and ended by "счет", "IBAN", a comma or the end of the text
\* is extracted whole.
C22_WholeName ==
    Extracted /\ Len(parts) >= 5 =>
        /\ ~Raised(data)
        /\ data.recipient = WrittenName

---------------------------------------------------------------------------
(* Properties of process_transaction (checked under SpecProcess) *)

Processed == result # NoneRec
NoNumericToken(s) == \A i \in 1..Len(s) : ~IsDigit(s[i])
EmbeddedBlock(s) == Contains(s, <<123>>) /\ Contains(s, <<125>>)

\* the adapter was called and parse built a record from its answer
AdapterRecord == llm /\ ~response.raises /\ ~Raised(parse(response.text))

IsSuccess(r) ==
    /\ DOMAIN r = {"transaction_data", "validation_result", "processing_method"}
    /\ r.transaction_data # NoneRec
    /\ r.validation_result # NoneRec
    /\ r.processing_method # "Error"

IsFailure(r) ==
    /\ DOMAIN r = {"transaction_data", "validation_result", "error",
                   "processing_method"}
    /\ r.transaction_data = NoneRec
    /\ r.validation_result = NoneRec
    /\ r.processing_method = "Error"

\* C9 as stated: for every text without a digit (the empty and the
\* white-space-only text included) no record is built and process_transaction
\* returns transaction_data = None with the error set.
C9_NoNumericTokenFails ==
    Processed /\ NoNumericToken(text) =>
        /\ "error" \in DOMAIN result
        /\ result.transaction_data = NoneRec

\* C9, amended: for every text without a digit and without a "{" ... "}" pair,
\* unless the adapter was called and its answer gave a record,
\* _extract_with_regex raises, parse raises its ValueError and
\* process_transaction returns the failure shape with that error.
C9_NoNumericTokenNoBlockFails ==
    Processed /\ NoNumericToken(text) /\ ~EmbeddedBlock(text) /\ ~AdapterRecord =>
        /\ extract_with_regex(text) = Raise("ValueError")
        /\ parse(text) = Raise("ValueError")
        /\ IsFailure(result)
        /\ result.error = "ValueError"

\* a white-space and word text, the adapter answered without the mandatory
\* keys, the original text was parsed and the call failed
C9_Witness ==
    /\ Processed
    /\ parts = <<part_space, part_money>>
    /\ llm
    /\ response = [raises |-> FALSE, text |-> doc_missing]
    /\ result = Failure(Raise("ValueError"))

\* C10: process_transaction never raises, with or without an adapter; what it
\* returns has exactly one of the two shapes, success (record and verdict both
\* set, no error, method not 'Error') or failure (record and verdict None,
\* error set, method 'Error'); a verdict, whatever errors and warnings it
\* holds, comes in the success shape and belongs to the returned record.
C10_TwoShapes ==
    Processed =>
        /\ ~Raised(result)
        /\ IsSuccess(result) # IsFailure(result)
        /\ IsSuccess(result) =>
             /\ ~Raised(result.transaction_data)
             /\ ~Raised(result.validation_result)
             /\ result.validation_result.transaction = result.transaction_data
             /\ result.processing_method = IF llm THEN "LLM" ELSE "Regex"
        /\ IsFailure(result) => result.error \in ExceptionTypes

\* the adapter raised, the embedded block of the original text gave the record
\* 1.0 RUB, which breaks the floor rule: a success with an invalid verdict
C10_Witness ==
    /\ Processed
    /\ parts = <<doc_true>>
    /\ llm
    /\ response.raises
    /\ IsSuccess(result)
    /\ ~result.validation_result.is_valid
    /\ result.validation_result.errors = <<"E_floor">>


\* the adapter was called and raised, or parse built no record from its answer
AdapterFailed == llm /\ (response.raises \/ Raised(parse(response.text)))

---------------------------------------------------------------------------
(* Properties of the currency and of processing_method (checked under
   SpecProcess) *)

\* the text the record of the result was built from: the adapter's answer when
\* the adapter was called and parse built a record from it, else the text
SourceText == IF AdapterRecord THEN response.text ELSE text

\* the record of the result was built by _extract_with_regex
PatternBuilt == Processed /\ IsSuccess(result) /\ ~EmbeddedBlock(SourceText)

CurrencyWarned(r) ==
    \E i \in 1..Len(r.validation_result.warnings) :
        r.validation_result.warnings[i] = "W_currency"

C28_MethodFollowsAdapter ==
    Processed /\ IsSuccess(result) =>
        /\ result.processing_method \in {"LLM", "Regex"}
        /\ result.processing_method = "Regex" <=> ~llm
        /\ result.processing_method = "LLM" <=> llm
        /\ llm /\ response.raises =>
             /\ result.processing_method = "LLM"
             /\ result.transaction_data = parse(text)
        /\ llm /\ AdapterRecord =>
             /\ result.processing_method = "LLM"
             /\ result.transaction_data = parse(response.text)

\* the adapter raised on '100 Рублей': the record is the patterns' and the
\* method is still 'LLM'
C28_Witness ==
    /\ Processed
    /\ parts = <<part_100, part_rubles>>
    /\ llm
    /\ response.raises
    /\ IsSuccess(result)
    /\ result.processing_method = "LLM"
    /\ result.transaction_data = ParseExtracted(extract_with_regex(text))
    /\ result.transaction_data.currency = RUB

---------------------------------------------------------------------------
(* Properties of parse (checked under SpecParse) *)

Parsed == record # NoneRec

\* the texts of the model whose amount is written with a minus sign
NegativeAmountInput ==
    \/ \E k \in 1..Len(parts) : parts[k] = doc_negative
    \/ \E k \in 1..(Len(parts) - 1) : parts[k] = part_minus /\ parts[k + 1] = part_100

\* C13: every record parse returns, from a block or from the patterns, has an
\* amount >= 0, and a text whose amount is negative gives no record.
C13_AmountNotNegative ==
    Parsed =>
        /\ ~Raised(record) => ~record.amount.neg
        /\ NegativeAmountInput => Raised(record)

\* C14: when parse returns no record it raises ValueError and nothing else
\* (missing key, undecodable block, amount not a number or null, currency
\* null or not a str).
C14_OnlyValueError ==
    Parsed /\ Raised(record) => record.exc = "ValueError"

\* the parts of the text that hold a brace
BraceParts == {k \in 1..Len(parts) : Contains(parts[k], <<123>>) \/ Contains(parts[k], <<125>>)}

\* the text between the first "{" and the last "}"
Block(s) ==
    SubSeq(s, Leftmost({i \in 1..Len(s) : s[i] = 123}),
           Rightmost({i \in 1..Len(s) : s[i] = 125}))

\* C15: parse uses the pattern extractor exactly when the text has no "{" and
\* "}" together; with a block every field comes from the text between the
\* first "{" and the last "}" (what surrounds it changes nothing), and an
\* undecodable block makes parse fail although the patterns would find an
\* amount around it.
C15_BlockOrPatterns ==
    Parsed =>
        /\ ~EmbeddedBlock(text) =>
             /\ Raised(record) <=> Raised(extract_with_regex(text))
             /\ ~Raised(record) =>
                  /\ record.amount = extract_with_regex(text).amount
                  /\ record.currency = UpperStr(extract_with_regex(text).currency)
                  /\ record.recipient = extract_with_regex(text).recipient
        /\ EmbeddedBlock(text) =>
             /\ record = parse(Block(text))
             /\ \A k \in BraceParts :
                  BraceParts = {k} /\ parts[k] \in Documents => record = parse(parts[k])
             /\ Raised(json_loads(Block(text))) => record = Raise("ValueError")

\* '100{"amount": 100, "currency": "usd", "recipient": "Bob"}': the patterns
\* would give RUB, the record is the block's
C15_Witness ==
    /\ Parsed
    /\ parts = <<part_100, doc_usd>>
    /\ record.currency = USD
    /\ record.recipient = name_Bob
    /\ extract_with_regex(text).currency = RUB

---------------------------------------------------------------------------
(* Properties of batch_process (checked under SpecBatch) *)

\* the result of the i-th text processed on its own, the adapter doing for it
\* what it did in the batch
ItemResult(i) == process_transaction(llm, answers[i], validator[1], texts[i])

\* what the extraction step gave for the i-th text
ItemExtraction(i) ==
    IF llm THEN extract_with_llm(answers[i], texts[i]) ELSE parse(texts[i])

\* a list without its k-th element
Without(list, k) ==
    [i \in 1..(Len(list) - 1) |-> IF i < k THEN list[i] ELSE list[i + 1]]

\* C11: batch_process returns as many results as texts, the i-th being the
\* result of the i-th text; when the extraction of item k fails, result k has
\* transaction_data = None and the other results are those of the batch
\* without item k.
C11_BatchOrder ==
    /\ Len(results) = Len(answers)
    /\ \A i \in 1..Len(results) : results[i] = ItemResult(i)
    /\ batch # NoneRec =>
         /\ batch.results = results
         /\ Len(batch.results) = Len(texts)
         /\ \A k \in 1..Len(texts) :
              Raised(ItemExtraction(k)) =>
                /\ batch.results[k].transaction_data = NoneRec
                /\ Without(batch.results, k)
                     = [i \in 1..(Len(texts) - 1) |->
                          process_transaction(llm, Without(answers, k)[i],
                                              validator[1], Without(texts, k)[i])]

\* a batch of three whose second text has no amount: it fails, its neighbours
\* succeed
C11_Witness ==
    /\ batch # NoneRec
    /\ ~llm
    /\ texts = <<doc_usd, part_money, text_100_rubles>>
    /\ batch.results[2] = Failure(Raise("ValueError"))
    /\ batch.results[1].transaction_data.currency = USD
    /\ batch.results[3].transaction_data.currency = RUB

---------------------------------------------------------------------------
(* Properties of get_statistics (checked under SpecStatistics) *)

Counted == statistics # NoneRec

\* the results that carry a record, and those of one currency
WithRecord == {i \in 1..Len(batch.results) : batch.results[i].transaction_data # NoneRec}
OfCurrency(c) == {i \in WithRecord : batch.results[i].transaction_data.currency = c}

\* the sum over a set of integers taken from a function
RECURSIVE SumOver(_, _)
SumOver(S, f) ==
    IF S = {} THEN 0
    ELSE LET i == CHOOSE j \in S : TRUE IN f[i] + SumOver(S \ {i}, f)

\* the amount of the i-th result in hundredths
Hundredths == [i \in WithRecord |-> Scaled(batch.results[i].transaction_data.amount, 2)]

\* C23: the statistics of a returned batch: the total is the length of the
\* list, successful_extractions counts the results with a record,
\* valid_transactions those whose verdict is valid, valid <= successful <=
\* total; the per-currency counts sum to successful_extractions, each
\* per-currency total is the sum of the amounts of that currency, and both
\* rates are 0 for the empty list.
C23_Statistics ==
    Counted =>
        /\ statistics.total_transactions = Len(batch.results)
        /\ statistics.successful_extractions = Cardinality(WithRecord)
        /\ statistics.valid_transactions =
               Cardinality({i \in 1..Len(batch.results) :
                              /\ batch.results[i].validation_result # NoneRec
                              /\ batch.results[i].validation_result.is_valid})
        /\ statistics.valid_transactions <= statistics.successful_extractions
        /\ statistics.successful_extractions <= statistics.total_transactions
        /\ DOMAIN statistics.currencies = DOMAIN statistics.total_amounts
        /\ DOMAIN statistics.currencies =
               {batch.results[i].transaction_data.currency : i \in WithRecord}
        /\ SumOver(DOMAIN statistics.currencies, statistics.currencies)
               = statistics.successful_extractions
        /\ \A c \in DOMAIN statistics.currencies :
               /\ statistics.currencies[c] = Cardinality(OfCurrency(c))
               /\ Scaled(statistics.total_amounts[c], 2) = SumOver(OfCurrency(c), Hundredths)
        /\ batch.results = <<>> =>
               /\ statistics.success_rate.num = 0
               /\ statistics.validation_rate.num = 0

\* statistics of a batch with a failure, an invalid record and two RUB amounts
C23_Witness ==
    /\ Counted
    /\ ~llm
    /\ texts = <<text_100_rubles, part_money, text_2_50_rubles>>
    /\ statistics.total_transactions = 3
    /\ statistics.successful_extractions = 2
    /\ statistics.valid_transactions = 1
    /\ statistics.total_amounts[RUB] = AndHalf(102)

\* statistics of the empty batch
C23_EmptyCounted ==
    Counted /\ texts = <<>> /\ statistics.total_transactions = 0

---------------------------------------------------------------------------
(* Properties of the pages of the application (checked under SpecApp) *)

\* the record the validator saw for a text
RecordValidated(t) == parse(t)

\* the record of r holds the account number and the IBAN that were validated,
\* and the verdict refers to the same record
HoldsPlaintext(r, t) ==
    /\ r.validation_result.transaction = r.transaction_data
    /\ r.transaction_data.account_number = RecordValidated(t).account_number
    /\ r.transaction_data.iban = RecordValidated(t).iban

\* C24: after an item has been processed, encrypted, saved and displayed on
\* the analysis page, and after a file has been processed with every item
\* saved, the record of the result still holds the plaintext account_number
\* and iban that were validated.
C24_RecordKeepsPlaintext ==
    /\ display # NoneRec /\ display.shown => HoldsPlaintext(result, text)
    /\ reported # NoneRec /\ reported.failed = 0 =>
         \A i \in 1..Len(results) : HoldsPlaintext(results[i], texts[i])

\* C29: when the file is complete every item has been processed and
\* successful + failed is the number of transactions read, also when
\* encryption or save_transaction raised for an item.
C29_CountedOnce ==
    reported # NoneRec =>
        /\ Len(results) = Len(texts)
        /\ reported.total = Len(texts)
        /\ reported.successful + reported.failed = Len(texts)

---------------------------------------------------------------------------
(* Properties of batch_process with a slow adapter (checked under SpecHang) *)

\* C25: batch_process eventually returns for every list of texts, also when
\* an adapter call never responds.
C25_BatchReturns == <>(batch # NoneRec)

---------------------------------------------------------------------------
(* Properties of authenticate_user (checked under SpecLogin) *)

\* the positions of the failed login attempts of a username in the audit log
FailedLogins(username) ==
    {i \in 1..Len(audit) :
        audit[i].action = "LOGIN_FAILED" /\ audit[i].username = username}

\* the position of the n-th failed login attempt of a username
NthFailedLogin(username, n) ==
    CHOOSE i \in FailedLogins(username) :
        Cardinality({j \in FailedLogins(username) : j <= i}) = n

IsLocked(username) ==
    username \in DOMAIN locked_users /\ clock < locked_users[username]

\* C26: for every username, the username is locked only after
\* MAX_LOGIN_ATTEMPTS failed login attempts, and from its
\* MAX_LOGIN_ATTEMPTS-th failed attempt it is locked for
\* LOCKOUT_DURATION_MINUTES.
C26_LockoutCountsAttempts ==
    \A username \in Usernames :
        /\ IsLocked(username) =>
              Cardinality(FailedLogins(username)) >= MAX_LOGIN_ATTEMPTS
        /\ /\ Cardinality(FailedLogins(username)) >= MAX_LOGIN_ATTEMPTS
           /\ clock < audit[NthFailedLogin(username, MAX_LOGIN_ATTEMPTS)].at
                         + LOCKOUT_DURATION_MINUTES
           => IsLocked(username)

---------------------------------------------------------------------------
(* Properties of create_alert (checked under SpecAlerts) *)

\* C30: every alert of AlertManager.alerts has an id different from every
\* other alert's id, for any interleaving of the create_alert calls of the
\* background thread and of the foreground callers.
C30_UniqueIds ==
    \A i, j \in 1..Len(alerts) : i # j => alerts[i].id # alerts[j].id

=============================================================================
